---------------------------- MODULE Spec2Model ----------------------------
(***************************************************************************)
(* Transcript processing of the yt-index tools: the segmenter              *)
(* (src/src/yt-index/utils/segments.ts) and the keyword extractor          *)
(* (src/src/yt-index/utils/keywords.ts and its dictionary revision,        *)
(* src/unnamed/part_006).                                                  *)
(*                                                                         *)
(* Text is a sequence of characters; a character is a one-character        *)
(* string.  The three non-ASCII delimiters of segments.ts are written      *)
(* "emdash", "endash" and "ellipsis".                                      *)
(***************************************************************************)
EXTENDS Integers, Sequences, FiniteSets, TLC

VARIABLES
    transcript,     \* the transcript argument
    segments,       \* the list extractSegments returned
    segPc,          \* extractSegments: "ready" before the call, "returned" after it
    nerReply,       \* what the entity recognizer does when it is called
    googleApiKey,   \* whether GOOGLE_KNOWLEDGE_API_KEY is set
    kgReplies,      \* what the knowledge graph returns for each looked-up term
    revision,       \* the revision of the keyword extractor: "keywords.ts" or "part_006"
    dictionaryConfig, \* the dictionaryConfig argument in a tuple, <<>> when it is not passed
    result,         \* the KeywordExtractionResult returned
    kwPc,           \* extractKeywordsFromTranscript: "ready", "returned" or "rejected"
    listA,          \* combineKeywords: its first argument
    listB,          \* combineKeywords: its second argument
    combined,       \* combineKeywords: the list it returned
    combinePc,      \* combineKeywords: "ready" before the call, "returned" after it
    calls,          \* the external calls the extraction has still to issue, in order
    inFlight,       \* the external call that is pending and what it awaits
    timer,          \* whether the abort timer of the pending request is armed
    outcomes,       \* how the calls issued so far ended, in order
    callPc,         \* the extraction and its calls: "running", "returned" or "rejected"
    toolInput,      \* processYouTubeVideo: includeKeywords, includeSegments, maxSegments
    fetchOutcome,   \* what fetchYouTubeTranscript does: "success", "failure" or "throws"
    toolResult,     \* processYouTubeVideo: the result it returned
    toolPc,         \* processYouTubeVideo: "ready" before the call, "returned" after it
    dictionaryCache, \* the module's dictionaryCache: cache key and dictionary, in insertion order
    callers,        \* the concurrent loadDictionaries calls, each with its position
    lastLoad,       \* the latest loadDictionary call: its source and how it ended
    allocated,      \* the number of Dictionary objects constructed so far
    insertions,     \* every dictionaryCache.set made so far: key and dictionary, in order
    lastIndex,      \* the lastIndex property of each pattern of REGEX_PATTERNS
    transcriptResult, \* fetchYouTubeTranscript: the result it returned
    segmentResult,  \* fetchYouTubeVideoSegments: the result it returned
    processed,      \* processLongTranscript: the text it returned, in a tuple
    extractions     \* successive extractSegments calls: the argument and the list returned

\* the state of the external calls
callVars == <<calls, inFlight, timer, outcomes, callPc>>

\* the state of the dictionary loader
loadVars == <<dictionaryCache, callers, lastLoad, allocated, insertions>>

\* the state of processYouTubeVideo
toolVars == <<toolInput, fetchOutcome, toolResult, toolPc>>

\* the state of the patterns and the calls made one after the other
regexVars == <<lastIndex, extractions>>

\* the results of the two fetching tools
fetchVars == <<transcriptResult, segmentResult>>

\* the result of processLongTranscript
longVars == <<processed>>

vars ==
    <<transcript, segments, segPc, nerReply, googleApiKey, kgReplies, revision,
      dictionaryConfig, result, kwPc, listA, listB, combined, combinePc, callVars,
      toolVars, loadVars, regexVars, fetchVars, longVars>>

\* no call is pending
NoCall == [kind |-> "none", awaiting |-> "nothing"]

\* no external call is issued
NoCalls ==
    /\ calls = <<>>
    /\ inFlight = NoCall
    /\ timer = FALSE
    /\ outcomes = <<>>
    /\ callPc = "running"

\* no dictionary is loaded
NoLoads ==
    /\ dictionaryCache = <<>>
    /\ callers = <<>>
    /\ lastLoad = <<>>
    /\ allocated = 0
    /\ insertions = <<>>

\* the patterns as the module creates them, and no call made yet
NoRuns ==
    /\ lastIndex = [WHITESPACE |-> 0, PUNCTUATION_ONLY |-> 0, SENTENCE_END |-> 0]
    /\ extractions = <<>>

\* processLongTranscript is not called
NoLong == processed = <<>>

\* no fetching tool is called
NoFetch ==
    /\ transcriptResult = <<>>
    /\ segmentResult = <<>>

\* processYouTubeVideo is not called
NoTool ==
    /\ toolInput = [includeKeywords |-> TRUE, includeSegments |-> TRUE, maxSegments |-> 15]
    /\ fetchOutcome = "success"
    /\ toolResult = <<>>
    /\ toolPc = "ready"

---------------------------------------------------------------------------
(* Character classes of the regular expressions *)

\* \w
WordChars ==
    {"a", "b", "c", "d", "e", "f", "g", "h", "i", "j", "k", "l", "m",
     "n", "o", "p", "q", "r", "s", "t", "u", "v", "w", "x", "y", "z",
     "A", "B", "C", "D", "E", "F", "G", "H", "I", "J", "K", "L", "M",
     "N", "O", "P", "Q", "R", "S", "T", "U", "V", "W", "X", "Y", "Z",
     "0", "1", "2", "3", "4", "5", "6", "7", "8", "9", "_"}

\* \s, and the characters String.prototype.trim removes
IsWhitespace(c) == c \in {" ", "\t", "\n", "\r"}

IsWordChar(c) == c \in WordChars

segmentDelimiters ==
    {".", "!", "?", ";", ":", "\n", "emdash", "endash", "ellipsis"}

\* segment.length >= 10
MinSegmentLength == 10

\* segment.length > 100
CommaSplitLength == 100

---------------------------------------------------------------------------
(* String operations *)

\* String.prototype.trim
trim(s) ==
    LET first == CHOOSE i \in 1..(Len(s) + 1) :
                     /\ i > Len(s) \/ ~IsWhitespace(s[i])
                     /\ \A j \in 1..(i - 1) : IsWhitespace(s[j])
        last  == CHOOSE i \in 0..Len(s) :
                     /\ i < 1 \/ ~IsWhitespace(s[i])
                     /\ \A j \in (i + 1)..Len(s) : IsWhitespace(s[j])
    IN  SubSeq(s, first, last)

\* the index of the first character of seps in s at or after i, Len(s) + 1 if none
NextOf(s, i, seps) ==
    CHOOSE j \in i..(Len(s) + 1) :
        /\ j > Len(s) \/ s[j] \in seps
        /\ \A k \in i..(j - 1) : s[k] \notin seps

\* the end of the match of [seps]+ that starts at i: the first index past the run
RunEnd(s, i, seps) ==
    CHOOSE j \in (i + 1)..(Len(s) + 1) :
        /\ j > Len(s) \/ s[j] \notin seps
        /\ \A k \in i..(j - 1) : s[k] \in seps

\* String.prototype.split on /[seps]+/g (runs) or on one separator (~runs): the
\* text between the matches, the empty strings before a leading match and
\* after a trailing one included
RECURSIVE SplitFrom(_, _, _, _, _)
SplitFrom(s, start, seps, runs, acc) ==
    LET i == NextOf(s, start, seps)
    IN  IF i > Len(s) THEN Append(acc, SubSeq(s, start, Len(s)))
        ELSE SplitFrom(s, IF runs THEN RunEnd(s, i, seps) ELSE i + 1, seps, runs,
                       Append(acc, SubSeq(s, start, i - 1)))

\* transcript.split(delimiterPattern); "".split(...) is [""]
splitDelimiterPattern(s) == SplitFrom(s, 1, segmentDelimiters, TRUE, <<>>)

\* String.prototype.split(","): every comma separates, runs are not collapsed
splitComma(s) == SplitFrom(s, 1, {","}, FALSE, <<>>)

\* replace(REGEX_PATTERNS.WHITESPACE, " "): every run of whitespace becomes one
\* space: the first character of a run is replaced, the others are removed
replaceWhitespace(s) ==
    LET RunStart(i) == ~IsWhitespace(s[i]) \/ i = 1 \/ ~IsWhitespace(s[i - 1])
        starts == SelectSeq([i \in 1..Len(s) |-> i], RunStart)
    IN  [k \in 1..Len(starts) |->
            IF IsWhitespace(s[starts[k]]) THEN " " ELSE s[starts[k]]]

\* REGEX_PATTERNS.PUNCTUATION_ONLY.test: /^[^\w\s]*$/
PUNCTUATION_ONLY(s) ==
    \A i \in 1..Len(s) : ~IsWordChar(s[i]) /\ ~IsWhitespace(s[i])

\* REGEX_PATTERNS.SENTENCE_END.test: /[.!?]$/
SENTENCE_END(s) == Len(s) > 0 /\ s[Len(s)] \in {".", "!", "?"}

\* REGEX_PATTERNS with every pattern global
RegExpFlagsGlobal == [WHITESPACE |-> "g", PUNCTUATION_ONLY |-> "g", SENTENCE_END |-> "g"]

\* the flags of the patterns of REGEX_PATTERNS
RegExpFlags == [WHITESPACE |-> "g", PUNCTUATION_ONLY |-> "", SENTENCE_END |-> ""]

\* where the match of the pattern ends that a search of s from position `from`
\* finds (positions count from 0), -1 when it finds none: ^ matches at
\* position 0 only, and a match of either pattern ends at the end of s
MatchEnd(pattern, s, from) ==
    IF pattern = "PUNCTUATION_ONLY"
    THEN IF from = 0 /\ PUNCTUATION_ONLY(s) THEN Len(s) ELSE -1
    ELSE IF from < Len(s) /\ SENTENCE_END(s) THEN Len(s) ELSE -1

\* RegExp.prototype.test with the patterns at the positions `index`: a pattern
\* without g searches from 0 and leaves lastIndex alone; a pattern with g
\* searches from its lastIndex, fails when that is beyond the end, and sets
\* lastIndex to the end of the match or, without a match, to 0
RegExpTest(pattern, s, index) ==
    LET global == RegExpFlags[pattern] = "g"
        from   == IF global THEN index[pattern] ELSE 0
        end    == IF from > Len(s) THEN -1 ELSE MatchEnd(pattern, s, from)
    IN  [matched   |-> end # -1,
         lastIndex |-> IF ~global THEN index
                       ELSE [index EXCEPT ![pattern] = IF end = -1 THEN 0 ELSE end]]

\* String.prototype.replace leaves the lastIndex of a pattern with g at 0
afterReplace(pattern, index) ==
    IF RegExpFlags[pattern] = "g" THEN [index EXCEPT ![pattern] = 0] ELSE index

MapTrim(list) == [i \in 1..Len(list) |-> trim(list[i])]

NonEmpty(s) == Len(s) > 0

Elements(list) == {list[i] : i \in 1..Len(list)}

RECURSIVE Concat(_)
Concat(lists) == IF lists = <<>> THEN <<>> ELSE Head(lists) \o Concat(Tail(lists))

---------------------------------------------------------------------------
(* extractSegments *)

\* commaSegments that splits every piece at its commas
RECURSIVE commaSegmentsAlways(_, _, _)
commaSegmentsAlways(list, i, acc) ==
    IF i > Len(list) THEN acc
    ELSE commaSegmentsAlways(list, i + 1,
             acc \o SelectSeq(MapTrim(splitComma(list[i])), NonEmpty))

\* commaSegments with the length test off by one (>= for >)
RECURSIVE commaSegmentsFrom100(_, _, _)
commaSegmentsFrom100(list, i, acc) ==
    IF i > Len(list) THEN acc
    ELSE IF Len(list[i]) >= CommaSplitLength
         THEN commaSegmentsFrom100(list, i + 1,
                  acc \o SelectSeq(MapTrim(splitComma(list[i])), NonEmpty))
         ELSE commaSegmentsFrom100(list, i + 1, Append(acc, list[i]))

\* the for loop over segments: a piece longer than 100 characters is split at
\* its commas, a shorter one is pushed as it is
RECURSIVE commaSegments(_, _, _)
commaSegments(list, i, acc) ==
    IF i > Len(list) THEN acc
    ELSE IF Len(list[i]) > CommaSplitLength
         THEN commaSegments(list, i + 1,
                  acc \o SelectSeq(MapTrim(splitComma(list[i])), NonEmpty))
         ELSE commaSegments(list, i + 1, Append(acc, list[i]))

\* cleanSegment without the whitespace replacement
cleanSegmentTrimOnly(s) == trim(s)

cleanSegment(s) == trim(replaceWhitespace(s))

\* keepSegment with > for >=
keepSegmentOver10(s, index) ==
    IF Len(s) > MinSegmentLength
    THEN LET test == RegExpTest("PUNCTUATION_ONLY", s, index)
         IN  [keep |-> ~test.matched, lastIndex |-> test.lastIndex]
    ELSE [keep |-> FALSE, lastIndex |-> index]

\* the callback of the filter: whether the segment is kept, and the positions
\* of the patterns after it; the pattern is tested only on a segment of at
\* least 10 characters
keepSegment(s, index) ==
    IF Len(s) >= MinSegmentLength
    THEN LET test == RegExpTest("PUNCTUATION_ONLY", s, index)
         IN  [keep |-> ~test.matched, lastIndex |-> test.lastIndex]
    ELSE [keep |-> FALSE, lastIndex |-> index]

\* a last map that tests the pattern and appends nothing
endSegmentUnclosed(s, index) ==
    LET test == RegExpTest("SENTENCE_END", s, index)
    IN  [segment   |-> s,
         lastIndex |-> test.lastIndex]

\* the callback of the last map: the segment with its full stop, and the
\* positions of the patterns after it
endSegment(s, index) ==
    LET test == RegExpTest("SENTENCE_END", s, index)
    IN  [segment   |-> IF ~test.matched THEN Append(s, ".") ELSE s,
         lastIndex |-> test.lastIndex]

\* filter(keepSegment) from element i on
RECURSIVE filterKept(_, _, _, _)
filterKept(list, i, index, acc) ==
    IF i > Len(list) THEN [segments |-> acc, lastIndex |-> index]
    ELSE LET kept == keepSegment(list[i], index)
         IN  filterKept(list, i + 1, kept.lastIndex,
                        IF kept.keep THEN Append(acc, list[i]) ELSE acc)

\* map(endSegment) from element i on
RECURSIVE mapEnded(_, _, _, _)
mapEnded(list, i, index, acc) ==
    IF i > Len(list) THEN [segments |-> acc, lastIndex |-> index]
    ELSE LET ended == endSegment(list[i], index)
         IN  mapEnded(list, i + 1, ended.lastIndex, Append(acc, ended.segment))

\* extractSegments that drops a segment equal to an earlier one
extractSegmentsCallUnique(t) ==
    LET split   == SelectSeq(MapTrim(splitDelimiterPattern(t)), NonEmpty)
        commas  == commaSegments(split, 1, <<>>)
        cleaned == [i \in 1..Len(commas) |-> cleanSegment(commas[i])]
        first   == {i \in 1..Len(cleaned) : \A j \in 1..(i - 1) : cleaned[j] # cleaned[i]}
        IsFirst(i) == i \in first
        uniq    == SelectSeq([i \in 1..Len(cleaned) |-> i], IsFirst)
        kept    == filterKept([k \in 1..Len(uniq) |-> cleaned[uniq[k]]], 1,
                              afterReplace("WHITESPACE", lastIndex), <<>>)
    IN  mapEnded(kept.segments, 1, kept.lastIndex, <<>>)

\* a call of extractSegments with the patterns as the calls before it left
\* them: the list it returns and the positions it leaves
extractSegmentsCall(t) ==
    IF Len(t) = 0 \/ Len(trim(t)) = 0 THEN [segments |-> <<>>, lastIndex |-> lastIndex]
    ELSE LET split    == SelectSeq(MapTrim(splitDelimiterPattern(t)), NonEmpty)
             commas   == commaSegments(split, 1, <<>>)
             cleaned  == [i \in 1..Len(commas) |-> cleanSegment(commas[i])]
             replaced == IF commas = <<>> THEN lastIndex
                         ELSE afterReplace("WHITESPACE", lastIndex)
             kept     == filterKept(cleaned, 1, replaced, <<>>)
         IN  mapEnded(kept.segments, 1, kept.lastIndex, <<>>)

\* the list extractSegments returns
extractSegments(t) == extractSegmentsCall(t).segments

---------------------------------------------------------------------------
(* Keyword extraction: strings, scores and maps *)

UpperCase ==
    <<"A", "B", "C", "D", "E", "F", "G", "H", "I", "J", "K", "L", "M",
      "N", "O", "P", "Q", "R", "S", "T", "U", "V", "W", "X", "Y", "Z">>

LowerCase ==
    <<"a", "b", "c", "d", "e", "f", "g", "h", "i", "j", "k", "l", "m",
      "n", "o", "p", "q", "r", "s", "t", "u", "v", "w", "x", "y", "z">>

IndexIn(c, letters) == CHOOSE i \in 1..Len(letters) : letters[i] = c

\* String.prototype.toLowerCase
toLowerCase(s) ==
    [i \in 1..Len(s) |->
        IF s[i] \in Elements(UpperCase) THEN LowerCase[IndexIn(s[i], UpperCase)]
        ELSE s[i]]

\* word.charAt(0).toUpperCase() + word.slice(1)
capitalize(s) ==
    [i \in 1..Len(s) |->
        IF i = 1 /\ s[i] \in Elements(LowerCase) THEN UpperCase[IndexIn(s[i], LowerCase)]
        ELSE s[i]]

\* String.prototype.includes
includes(s, part) ==
    \E i \in 1..(Len(s) - Len(part) + 1) : \A j \in 1..Len(part) : s[i + j - 1] = part[j]

\* replace(PUNCTUATION_REGEX, " "): /[^\w\s]/g
replacePunctuation(s) ==
    [i \in 1..Len(s) |->
        IF ~IsWordChar(s[i]) /\ ~IsWhitespace(s[i]) THEN " " ELSE s[i]]

\* split(WHITESPACE_REGEX): /\s+/
splitWhitespace(s) == SplitFrom(s, 1, {" ", "\t", "\n", "\r"}, TRUE, <<>>)

\* ALPHABETIC_REGEX.test: /^[a-z]+$/
ALPHABETIC(s) == Len(s) > 0 /\ \A i \in 1..Len(s) : s[i] \in Elements(LowerCase)

\* getTechnicalTermScore: technicalTerms (keywords.ts)
technicalTerms ==
    {<<"m", "a", "c", "h", "i", "n", "e">>, <<"l", "e", "a", "r", "n", "i", "n", "g">>,
     <<"a", "r", "t", "i", "f", "i", "c", "i", "a", "l">>,
     <<"i", "n", "t", "e", "l", "l", "i", "g", "e", "n", "c", "e">>,
     <<"n", "e", "u", "r", "a", "l">>, <<"n", "e", "t", "w", "o", "r", "k", "s">>,
     <<"d", "e", "e", "p">>, <<"d", "a", "t", "a">>,
     <<"s", "c", "i", "e", "n", "c", "e">>, <<"p", "y", "t", "h", "o", "n">>,
     <<"j", "a", "v", "a", "s", "c", "r", "i", "p", "t">>,
     <<"t", "y", "p", "e", "s", "c", "r", "i", "p", "t">>, <<"r", "e", "a", "c", "t">>,
     <<"n", "o", "d", "e">>, <<"t", "e", "n", "s", "o", "r", "f", "l", "o", "w">>,
     <<"p", "y", "t", "o", "r", "c", "h">>, <<"a", "p", "i">>,
     <<"d", "a", "t", "a", "b", "a", "s", "e">>,
     <<"a", "l", "g", "o", "r", "i", "t", "h", "m">>,
     <<"p", "r", "o", "g", "r", "a", "m", "m", "i", "n", "g">>,
     <<"s", "o", "f", "t", "w", "a", "r", "e">>,
     <<"d", "e", "v", "e", "l", "o", "p", "m", "e", "n", "t">>,
     <<"t", "u", "t", "o", "r", "i", "a", "l">>,
     <<"t", "u", "t", "o", "r", "i", "a", "l", "s">>, <<"c", "o", "d", "i", "n", "g">>,
     <<"c", "o", "d", "e">>,
     <<"c", "r", "y", "p", "t", "o", "c", "u", "r", "r", "e", "n", "c", "y">>,
     <<"b", "i", "t", "c", "o", "i", "n">>, <<"e", "t", "h", "e", "r", "e", "u", "m">>,
     <<"b", "l", "o", "c", "k", "c", "h", "a", "i", "n">>,
     <<"i", "n", "v", "e", "s", "t", "m", "e", "n", "t">>,
     <<"f", "i", "n", "a", "n", "c", "i", "a", "l">>, <<"m", "a", "r", "k", "e", "t">>,
     <<"a", "n", "a", "l", "y", "s", "i", "s">>, <<"g", "a", "m", "i", "n", "g">>,
     <<"g", "a", "m", "e">>, <<"g", "a", "m", "e", "p", "l", "a", "y">>,
     <<"s", "t", "r", "a", "t", "e", "g", "y">>,
     <<"s", "t", "r", "a", "t", "e", "g", "i", "e", "s">>}

\* the terms the dictionary revision (part_006) adds to technicalTerms
technicalTermsAdded ==
    {<<"e", "p", "i", "c">>, <<"s", "e", "s", "s", "i", "o", "n">>,
     <<"l", "e", "a", "d", "e", "r", "b", "o", "a", "r", "d">>,
     <<"u", "p", "d", "a", "t", "e", "s">>,
     <<"p", "r", "o", "d", "u", "c", "t", "i", "v", "i", "t", "y">>,
     <<"m", "o", "t", "i", "v", "a", "t", "i", "o", "n">>,
     <<"r", "o", "u", "t", "i", "n", "e">>,
     <<"m", "e", "d", "i", "t", "a", "t", "i", "o", "n">>,
     <<"e", "x", "e", "r", "c", "i", "s", "e">>, <<"h", "e", "a", "l", "t", "h", "y">>,
     <<"l", "i", "f", "e", "s", "t", "y", "l", "e">>,
     <<"b", "a", "l", "a", "n", "c", "e">>}

\* getDomainSpecificScore: domainTerms
domainTerms ==
    {<<"t", "u", "t", "o", "r", "i", "a", "l">>, <<"g", "u", "i", "d", "e">>,
     <<"t", "i", "p", "s">>, <<"t", "r", "i", "c", "k", "s">>,
     <<"h", "a", "c", "k", "s">>, <<"s", "e", "c", "r", "e", "t", "s">>,
     <<"m", "e", "t", "h", "o", "d", "s">>,
     <<"t", "e", "c", "h", "n", "i", "q", "u", "e", "s">>,
     <<"a", "d", "v", "a", "n", "c", "e", "d">>,
     <<"b", "e", "g", "i", "n", "n", "e", "r">>,
     <<"i", "n", "t", "e", "r", "m", "e", "d", "i", "a", "t", "e">>,
     <<"e", "x", "p", "e", "r", "t">>,
     <<"p", "r", "o", "f", "e", "s", "s", "i", "o", "n", "a", "l">>,
     <<"c", "o", "m", "p", "r", "e", "h", "e", "n", "s", "i", "v", "e">>,
     <<"p", "r", "a", "c", "t", "i", "c", "a", "l">>,
     <<"h", "a", "n", "d", "s", "-", "o", "n">>,
     <<"s", "t", "e", "p", "-", "b", "y", "-", "s", "t", "e", "p">>,
     <<"d", "e", "t", "a", "i", "l", "e", "d">>,
     <<"i", "n", "-", "d", "e", "p", "t", "h">>,
     <<"c", "o", "m", "p", "l", "e", "t", "e">>}

\* isStopWord: stopWords
stopWords ==
    {<<"t", "h", "e">>, <<"a", "n", "d">>, <<"o", "r">>, <<"b", "u", "t">>,
     <<"i", "n">>, <<"o", "n">>, <<"a", "t">>, <<"t", "o">>, <<"f", "o", "r">>,
     <<"o", "f">>, <<"w", "i", "t", "h">>, <<"b", "y">>, <<"f", "r", "o", "m">>,
     <<"u", "p">>, <<"a", "b", "o", "u", "t">>, <<"i", "n", "t", "o">>,
     <<"t", "h", "r", "o", "u", "g", "h">>, <<"d", "u", "r", "i", "n", "g">>,
     <<"b", "e", "f", "o", "r", "e">>, <<"a", "f", "t", "e", "r">>,
     <<"a", "b", "o", "v", "e">>, <<"b", "e", "l", "o", "w">>,
     <<"b", "e", "t", "w", "e", "e", "n">>, <<"a", "m", "o", "n", "g">>,
     <<"t", "h", "i", "s">>, <<"t", "h", "a", "t">>, <<"t", "h", "e", "s", "e">>,
     <<"t", "h", "o", "s", "e">>, <<"i">>, <<"y", "o", "u">>, <<"h", "e">>,
     <<"s", "h", "e">>, <<"i", "t">>, <<"w", "e">>, <<"t", "h", "e", "y">>,
     <<"m", "e">>, <<"h", "i", "m">>, <<"h", "e", "r">>, <<"u", "s">>,
     <<"t", "h", "e", "m">>, <<"m", "y">>, <<"y", "o", "u", "r">>, <<"h", "i", "s">>,
     <<"i", "t", "s">>, <<"o", "u", "r">>, <<"t", "h", "e", "i", "r">>,
     <<"w", "i", "l", "l">>, <<"w", "o", "u", "l", "d">>, <<"c", "o", "u", "l", "d">>,
     <<"s", "h", "o", "u", "l", "d">>, <<"m", "a", "y">>, <<"m", "i", "g", "h", "t">>,
     <<"c", "a", "n">>, <<"m", "u", "s", "t">>, <<"s", "h", "a", "l", "l">>,
     <<"h", "a", "v", "e">>, <<"h", "a", "s">>, <<"h", "a", "d">>, <<"d", "o">>,
     <<"d", "o", "e", "s">>, <<"d", "i", "d">>, <<"a", "m">>, <<"i", "s">>,
     <<"a", "r", "e">>, <<"w", "a", "s">>, <<"w", "e", "r", "e">>, <<"b", "e">>,
     <<"b", "e", "e", "n">>, <<"b", "e", "i", "n", "g">>, <<"g", "e", "t">>,
     <<"g", "o", "t">>, <<"g", "o", "n", "n", "a">>, <<"n", "e", "v", "e", "r">>,
     <<"a", "l", "w", "a", "y", "s">>, <<"s", "o", "m", "e", "t", "i", "m", "e", "s">>,
     <<"o", "f", "t", "e", "n">>, <<"u", "s", "u", "a", "l", "l", "y">>,
     <<"r", "e", "a", "l", "l", "y">>, <<"v", "e", "r", "y">>,
     <<"q", "u", "i", "t", "e">>, <<"j", "u", "s", "t">>, <<"o", "n", "l", "y">>,
     <<"a", "l", "s", "o">>, <<"t", "o", "o">>, <<"e", "i", "t", "h", "e", "r">>,
     <<"n", "e", "i", "t", "h", "e", "r">>, <<"b", "o", "t", "h">>, <<"a", "l", "l">>,
     <<"s", "o", "m", "e">>, <<"a", "n", "y">>, <<"e", "v", "e", "r", "y">>,
     <<"e", "a", "c", "h">>}

isStopWord(word) == toLowerCase(word) \in stopWords

\* scores are kept in units of 1/One, so that every score the code computes on
\* the transcripts of the model is a whole number of units
RECURSIVE Factorial(_)
Factorial(n) == IF n <= 1 THEN 1 ELSE n * Factorial(n - 1)

Min(a, b) == IF a <= b THEN a ELSE b

\* a Map as the sequence of its entries in insertion order
MapHas(map, key) == \E i \in 1..Len(map) : map[i].key = key

MapGet(map, key) == map[CHOOSE i \in 1..Len(map) : map[i].key = key].value

\* Map.prototype.set: a present key keeps its place and takes the new value
MapSet(map, key, value) ==
    IF MapHas(map, key)
    THEN [i \in 1..Len(map) |->
             IF map[i].key = key THEN [key |-> key, value |-> value] ELSE map[i]]
    ELSE Append(map, [key |-> key, value |-> value])

\* Array.from(map.values())
MapValues(map) == [i \in 1..Len(map) |-> map[i].value]

\* Array.prototype.sort((a, b) => b.score - a.score): stable, highest score first
RECURSIVE InsertByScore(_, _)
InsertByScore(sorted, k) ==
    IF sorted = <<>> THEN <<k>>
    ELSE IF k.score > sorted[Len(sorted)].score
         THEN Append(InsertByScore(SubSeq(sorted, 1, Len(sorted) - 1), k),
                     sorted[Len(sorted)])
         ELSE Append(sorted, k)

RECURSIVE sortByScore(_)
sortByScore(list) ==
    IF list = <<>> THEN <<>>
    ELSE InsertByScore(sortByScore(SubSeq(list, 1, Len(list) - 1)), list[Len(list)])

---------------------------------------------------------------------------
(* Keyword extraction: keywords.ts *)

\* the longest text of the model, in words
MaxWords == 2

\* the score 1.0
One == 6000 * Factorial(MaxWords)

\* item.score > 0.3
NerThreshold == (3 * One) \div 10

\* score > 0.05
GeneralThreshold == One \div 20

PERSON == <<"P", "E", "R", "S", "O", "N">>
ORG == <<"O", "R", "G">>
LOCATION == <<"L", "O", "C", "A", "T", "I", "O", "N">>
MISC == <<"M", "I", "S", "C">>
KEYWORD == <<"K", "E", "Y", "W", "O", "R", "D">>
KNOWLEDGE_GRAPH == <<"K", "N", "O", "W", "L", "E", "D", "G", "E", "_", "G", "R", "A", "P", "H">>
Thing == <<"T", "h", "i", "n", "g">>

mapEntityType(entity) ==
    CASE entity \in {<<"B", "-", "P", "E", "R">>, <<"I", "-", "P", "E", "R">>} -> PERSON
      [] entity \in {<<"B", "-", "O", "R", "G">>, <<"I", "-", "O", "R", "G">>} -> ORG
      [] entity \in {<<"B", "-", "L", "O", "C">>, <<"I", "-", "L", "O", "C">>} -> LOCATION
      [] entity \in {<<"B", "-", "M", "I", "S", "C">>, <<"I", "-", "M", "I", "S", "C">>} -> MISC
      [] OTHER -> KEYWORD

Keyword(word, entity, score, sources) ==
    [word |-> word, entity |-> entity, score |-> score, sources |-> sources]

\* const chunkSize = 500
chunkSize == 500

\* the for loop of transcript.slice(i, i + chunkSize)
sliceChunks(t, size) ==
    [k \in 1..((Len(t) + size - 1) \div size) |->
        SubSeq(t, (k - 1) * size + 1, Min(k * size, Len(t)))]

\* allResults: what the recognizer returned for the chunks that are not blank;
\* a chunk whose recognition throws is skipped
allResults(t, ner) ==
    LET sent == SelectSeq(sliceChunks(t, chunkSize), LAMBDA c : Len(trim(c)) > 0)
    IN  IF ner.status = "chunk_error" THEN <<>>
        ELSE Concat([k \in 1..Len(sent) |-> ner.items])

\* the loop over rawKeywords: one entry per (lowercased word, entity), the first
\* of the highest score
RECURSIVE dedupeByWordAndEntity(_, _, _)
dedupeByWordAndEntity(raw, i, map) ==
    IF i > Len(raw) THEN map
    ELSE LET key == <<toLowerCase(raw[i].word), raw[i].entity>>
         IN  dedupeByWordAndEntity(raw, i + 1,
                 IF ~MapHas(map, key) \/ MapGet(map, key).score < raw[i].score
                 THEN MapSet(map, key, raw[i]) ELSE map)

\* extractNamedEntities, once the pipeline is loaded
extractNamedEntities(t, ner) ==
    LET confident == SelectSeq(allResults(t, ner), LAMBDA item : item.score > NerThreshold)
        rawKeywords ==
            [i \in 1..Len(confident) |->
                Keyword(confident[i].word, mapEntityType(confident[i].entity),
                        Min(confident[i].score, One), <<"NER">>)]
    IN  sortByScore(MapValues(dedupeByWordAndEntity(rawKeywords, 1, <<>>)))

\* the filtered words of the transcript
generalWords(t, minLength) ==
    SelectSeq(splitWhitespace(replacePunctuation(toLowerCase(t))),
              LAMBDA word : Len(word) >= minLength /\ ~isStopWord(word))

\* wordCount: the distinct words in the order of their first occurrence
RECURSIVE countWords(_, _, _)
countWords(words, i, map) ==
    IF i > Len(words) THEN map
    ELSE countWords(words, i + 1,
             MapSet(map, words[i],
                    (IF MapHas(map, words[i]) THEN MapGet(map, words[i]) ELSE 0) + 1))

getTechnicalTermScore(word, terms) ==
    IF \E term \in terms : includes(word, term) THEN (8 * One) \div 10 ELSE 0

getDomainSpecificScore(word) ==
    IF \E term \in domainTerms : includes(word, term) THEN (6 * One) \div 10 ELSE 0

\* frequency * 0.4 + lengthScore * 0.15 + technicalScore * 0.15 + domainScore * 0.1
generalScore(word, count, total, terms) ==
    (4 * count * One) \div (10 * total)
    + (15 * Min(Len(word), 12) * One) \div (100 * 12)
    + (15 * getTechnicalTermScore(word, terms)) \div 100
    + (10 * getDomainSpecificScore(word)) \div 100

\* .slice(0, n)
slice0(list, n) == SubSeq(list, 1, Min(n, Len(list)))

extractGeneralKeywords(t) ==
    LET words   == generalWords(t, 3)
        counted == countWords(words, 1, <<>>)
        scored  == [i \in 1..Len(counted) |->
                       Keyword(capitalize(counted[i].key), KEYWORD,
                               generalScore(counted[i].key, counted[i].value,
                                            Len(words), technicalTerms),
                               <<"General">>)]
        kept    == SelectSeq(scored, LAMBDA k : k.score > GeneralThreshold)
    IN  slice0(sortByScore([i \in 1..Len(kept) |->
                   [kept[i] EXCEPT !.score = Min(kept[i].score, One)]]), 25)

\* extractPotentialEntityTerms: the ten most frequent alphabetic words of four
\* letters or more, most frequent first
extractPotentialEntityTerms(t) ==
    LET words   == SelectSeq(generalWords(t, 4), ALPHABETIC)
        counted == countWords(words, 1, <<>>)
        byCount == sortByScore([i \in 1..Len(counted) |->
                       [word |-> counted[i].key, score |-> counted[i].value]])
    IN  [i \in 1..Min(10, Len(byCount)) |-> byCount[i].word]

\* fetchGoogleKnowledgeEntities: the items of the response, with the defaults
\* for a missing name ("") and a missing type ("Thing")
fetchGoogleKnowledgeEntities(reply) ==
    [i \in 1..Len(reply.items) |->
        [name |-> reply.items[i].name,
         type |-> IF reply.items[i].type = <<>> THEN Thing ELSE reply.items[i].type,
         detailedDescriptionLength |-> reply.items[i].detailedDescriptionLength]]

highValueTypes ==
    {<<"P", "e", "r", "s", "o", "n">>, <<"O", "r", "g", "a", "n", "i", "z", "a", "t", "i", "o", "n">>, <<"P", "l", "a", "c", "e">>, <<"E", "v", "e", "n", "t">>, <<"C", "r", "e", "a", "t", "i", "v", "e", "W", "o", "r", "k">>}

calculateKnowledgeGraphScore(entity) ==
    Min((7 * One) \div 10
        + (IF entity.detailedDescriptionLength > 100 THEN One \div 10 ELSE 0)
        + (IF entity.type \in highValueTypes THEN One \div 10 ELSE 0),
        One)

\* the keywords one looked-up term contributes; a lookup that throws contributes
\* none
knowledgeGraphKeywordsOf(t, reply) ==
    IF reply.status # "ok" THEN <<>>
    ELSE LET entities == fetchGoogleKnowledgeEntities(reply)
             named    == SelectSeq(entities,
                             LAMBDA e : includes(toLowerCase(t), toLowerCase(e.name)))
         IN  [i \in 1..Len(named) |->
                 Keyword(named[i].name,
                         IF named[i].type = <<>> THEN KNOWLEDGE_GRAPH ELSE named[i].type,
                         calculateKnowledgeGraphScore(named[i]),
                         <<"Google Knowledge Graph">>)]

\* extractKnowledgeGraphKeywords: apiKey is whether GOOGLE_KNOWLEDGE_API_KEY is
\* set, replies[term] what the lookup of term returns
extractKnowledgeGraphKeywords(t, apiKey, replies) ==
    IF ~apiKey THEN <<>>
    ELSE LET terms == slice0(extractPotentialEntityTerms(t), 5)
         IN  sortByScore(Concat([i \in 1..Len(terms) |->
                 knowledgeGraphKeywordsOf(t, replies[terms[i]])]))

\* combineKeywords, first loop: every keyword of the first list is set
RECURSIVE setAll(_, _, _)
setAll(list, i, map) ==
    IF i > Len(list) THEN map
    ELSE setAll(list, i + 1, MapSet(map, toLowerCase(list[i].word), list[i]))

\* the second loop without its test: every keyword of the second list is set
RECURSIVE setUnconditionally(_, _, _)
setUnconditionally(list, i, map) ==
    IF i > Len(list) THEN map
    ELSE setUnconditionally(list, i + 1, MapSet(map, toLowerCase(list[i].word), list[i]))

\* combineKeywords, second loop: a keyword of the second list is set when its
\* word is new or its score is strictly greater
RECURSIVE setHigher(_, _, _)
setHigher(list, i, map) ==
    IF i > Len(list) THEN map
    ELSE LET key == toLowerCase(list[i].word)
         IN  setHigher(list, i + 1,
                 IF ~MapHas(map, key) \/ list[i].score > MapGet(map, key).score
                 THEN MapSet(map, key, list[i]) ELSE map)

\* a variant that returns the map's values without sorting them
combineKeywordsUnsorted(nerKeywords, generalKeywords) ==
    MapValues(setHigher(generalKeywords, 1, setAll(nerKeywords, 1, <<>>)))

combineKeywords(nerKeywords, generalKeywords) ==
    sortByScore(MapValues(setHigher(generalKeywords, 1, setAll(nerKeywords, 1, <<>>))))

\* keyword.entity.replace(ENTRY_PREFIX_REGEX, ""): /^[BI]-/
removeEntryPrefix(entity) ==
    IF Len(entity) >= 2 /\ entity[1] \in {"B", "I"} /\ entity[2] = "-"
    THEN SubSeq(entity, 3, Len(entity)) ELSE entity

\* a variant that buckets by the entity as it is
groupKeywordsByEntity(list) ==
    [entityType \in {list[i].entity : i \in 1..Len(list)} |->
        SelectSeq(list, LAMBDA k : k.entity = entityType)]

\* groupKeywordsByType: the buckets, each with its keywords in list order
groupKeywordsByType(list) ==
    [entityType \in {removeEntryPrefix(list[i].entity) : i \in 1..Len(list)} |->
        SelectSeq(list, LAMBDA k : removeEntryPrefix(k.entity) = entityType)]

\* const MAX_LENGTH = 50_000
MAX_LENGTH == 50000

\* const CHUNK_SIZE = 10_000
CHUNK_SIZE == 10000

\* Array.prototype.join(" ")
RECURSIVE JoinWords(_)
JoinWords(ws) ==
    IF ws = <<>> THEN <<>>
    ELSE IF Len(ws) = 1 THEN ws[1]
    ELSE LET half == Len(ws) \div 2
         IN  JoinWords(SubSeq(ws, 1, half)) \o <<" ">>
                 \o JoinWords(SubSeq(ws, half + 1, Len(ws)))

\* a split at the runs of ! and ? only
splitSentencesKeepingStops(t) ==
    LET IsMark(i)  == t[i] \in {"!", "?"}
        IsStart(i) == IsMark(i) /\ (i = 1 \/ ~IsMark(i - 1))
        IsEnd(i)   == IsMark(i) /\ (i = Len(t) \/ ~IsMark(i + 1))
        starts     == SelectSeq([i \in 1..Len(t) |-> i], IsStart)
        ends       == SelectSeq([i \in 1..Len(t) |-> i], IsEnd)
        pieces     == Len(starts) + 1
    IN  [k \in 1..pieces |->
            SubSeq(t, IF k = 1 THEN 1 ELSE ends[k - 1] + 1,
                      IF k = pieces THEN Len(t) ELSE starts[k] - 1)]

\* transcript.split(SENTENCE_SPLIT_REGEX): /[.!?]+/, the text between the runs
\* of sentence marks
splitSentences(t) ==
    LET IsMark(i)  == t[i] \in {".", "!", "?"}
        IsStart(i) == IsMark(i) /\ (i = 1 \/ ~IsMark(i - 1))
        IsEnd(i)   == IsMark(i) /\ (i = Len(t) \/ ~IsMark(i + 1))
        starts     == SelectSeq([i \in 1..Len(t) |-> i], IsStart)
        ends       == SelectSeq([i \in 1..Len(t) |-> i], IsEnd)
        pieces     == Len(starts) + 1
    IN  [k \in 1..pieces |->
            SubSeq(t, IF k = 1 THEN 1 ELSE ends[k - 1] + 1,
                      IF k = pieces THEN Len(t) ELSE starts[k] - 1)]

\* chunks.push(currentChunk.trim()) when currentChunk.trim() is not empty
pushChunk(chunks, currentChunk) ==
    IF trim(currentChunk) # <<>> THEN Append(chunks, trim(currentChunk)) ELSE chunks

\* the for loop over the sentences and the push after it
RECURSIVE chunkSentences(_, _, _, _)
chunkSentences(sentences, i, currentChunk, chunks) ==
    IF i > Len(sentences) THEN pushChunk(chunks, currentChunk)
    ELSE IF Len(currentChunk) + Len(sentences[i]) > CHUNK_SIZE
         THEN chunkSentences(sentences, i + 1, sentences[i], pushChunk(chunks, currentChunk))
         ELSE chunkSentences(sentences, i + 1,
                  currentChunk \o (IF currentChunk # <<>> THEN <<" ">> ELSE <<>>)
                      \o sentences[i],
                  chunks)

\* Math.ceil(MAX_LENGTH / CHUNK_SIZE)
maxChunks == (MAX_LENGTH + CHUNK_SIZE - 1) \div CHUNK_SIZE

\* the chunks that are joined: all of them when there are at most maxChunks,
\* otherwise every step-th from the first, at most maxChunks, and then the
\* last chunk unless the sample includes an equal one
sampleChunks(chunks) ==
    IF Len(chunks) <= maxChunks THEN chunks
    ELSE LET step    == Len(chunks) \div maxChunks
             count   == Min(maxChunks, (Len(chunks) + step - 1) \div step)
             sampled == [k \in 1..count |-> chunks[(k - 1) * step + 1]]
             lastChunk == chunks[Len(chunks)]
         IN  IF lastChunk \in Elements(sampled) THEN sampled
             ELSE Append(sampled, lastChunk)

\* String.prototype.lastIndexOf for one character: the index from 0, -1 when
\* the character is not in s
lastIndexOf(s, c) ==
    LET Is(i) == s[i] = c
        at    == SelectSeq([i \in 1..Len(s) |-> i], Is)
    IN  IF at = <<>> THEN -1 ELSE at[Len(at)] - 1

\* Math.max
MathMax(numbers) == CHOOSE m \in numbers : \A n \in numbers : n <= m

\* a variant without the cut
truncateNever(sampledText) == sampledText

\* the last if: a text longer than MAX_LENGTH is cut there, and then after
\* its last sentence mark when that lies beyond 0.8 * MAX_LENGTH
truncate(sampledText) ==
    IF Len(sampledText) > MAX_LENGTH
    THEN LET cut == SubSeq(sampledText, 1, MAX_LENGTH)
             lastSentenceEnd ==
                 MathMax({lastIndexOf(cut, "."), lastIndexOf(cut, "!"),
                          lastIndexOf(cut, "?")})
         IN  IF 10 * lastSentenceEnd > 8 * MAX_LENGTH
             THEN SubSeq(cut, 1, lastSentenceEnd + 1)
             ELSE cut
    ELSE sampledText

\* the chunks of a transcript longer than MAX_LENGTH
chunksOf(t) ==
    chunkSentences(SelectSeq(splitSentences(t), LAMBDA s : Len(trim(s)) > 0), 1, <<>>, <<>>)

processLongTranscript(t) ==
    IF Len(t) <= MAX_LENGTH THEN t
    ELSE truncate(JoinWords(sampleChunks(chunksOf(t))))

\* a variant whose totalCount is the number of buckets
KeywordExtractionResultCountingBuckets(combinedKeywords, used) ==
    [keywords |-> combinedKeywords,
     groupedKeywords |-> groupKeywordsByType(combinedKeywords),
     totalCount |-> Cardinality(DOMAIN groupKeywordsByType(combinedKeywords)),
     dictionariesUsed |-> used]

\* the result object of extractKeywordsFromTranscript
KeywordExtractionResult(combinedKeywords, used) ==
    [keywords |-> combinedKeywords,
     groupedKeywords |-> groupKeywordsByType(combinedKeywords),
     totalCount |-> Len(combinedKeywords),
     dictionariesUsed |-> used]

\* extractKeywordsFromTranscript (keywords.ts), once the pipeline is loaded
extractKeywordsFromTranscript(t, ner, apiKey, replies) ==
    LET processedTranscript == processLongTranscript(t)
        nerKeywords == extractNamedEntities(processedTranscript, ner)
        generalKeywords == extractGeneralKeywords(processedTranscript)
        knowledgeGraphKeywords ==
            extractKnowledgeGraphKeywords(processedTranscript, apiKey, replies)
    IN  KeywordExtractionResult(
            combineKeywords(combineKeywords(nerKeywords, generalKeywords),
                            knowledgeGraphKeywords),
            IF Len(knowledgeGraphKeywords) > 0
            THEN <<"Google Knowledge Graph">> ELSE <<>>)

EmptyResult == KeywordExtractionResult(<<>>, <<>>)

---------------------------------------------------------------------------
(* Keyword extraction: the dictionary revision (part_006) *)

Dictionary(name, terms, weight) == [name |-> name, terms |-> terms, weight |-> weight]

\* new Set(terms), in insertion order
RECURSIVE unique(_)
unique(list) ==
    IF list = <<>> THEN <<>>
    ELSE LET front == unique(SubSeq(list, 1, Len(list) - 1))
         IN  IF list[Len(list)] \in Elements(front) THEN front
             ELSE Append(front, list[Len(list)])

\* loadDictionary: an inline source gives its lowercased terms, a url or api
\* source no term, a source of an unknown type the "Error" dictionary of weight
\* 0; a weight that is missing (0) counts as 1.0
loadDictionary(source) ==
    LET weight == IF source.weight = 0 THEN One ELSE source.weight
    IN  CASE source.type = "inline" ->
                 Dictionary("Inline Dictionary",
                            unique([i \in 1..Len(source.terms) |->
                                       toLowerCase(source.terms[i])]),
                            weight)
          [] source.type = "url" -> Dictionary("URL", <<>>, weight)
          [] source.type = "api" -> Dictionary("API", <<>>, weight)
          [] OTHER -> Dictionary("Error", <<>>, 0)

\* loadDictionaries: the dictionaries of the sources that have a term
loadDictionaries(config) ==
    SelectSeq([i \in 1..Len(config.dictionaries) |-> loadDictionary(config.dictionaries[i])],
              LAMBDA d : Len(d.terms) > 0)

RECURSIVE Sum(_)
Sum(list) == IF list = <<>> THEN 0 ELSE Head(list) + Sum(Tail(list))

\* getDictionaryScore: the weights and names of the dictionaries that hold the word
getDictionaryScore(word, dictionaries) ==
    LET holding == SelectSeq(dictionaries,
                       LAMBDA d : toLowerCase(word) \in Elements(d.terms))
    IN  [score |-> Sum([i \in 1..Len(holding) |-> holding[i].weight]),
         sources |-> [i \in 1..Len(holding) |-> holding[i].name]]

\* const chunkSize = 1000
chunkSizeDictionaries == 1000

\* whether extractNamedEntities of part_006 throws: a chunk's recognition
\* throws and nothing catches it
namedEntitiesThrow(t, ner) ==
    ner.status = "chunk_error" /\ Len(sliceChunks(t, chunkSizeDictionaries)) > 0

\* a variant that does not cap the boosted score at 1
extractNamedEntitiesUncapped(t, ner, dictionaries) ==
    LET sent == sliceChunks(t, chunkSizeDictionaries)
        all  == Concat([k \in 1..Len(sent) |-> ner.items])
        confident == SelectSeq(all, LAMBDA item : item.score > NerThreshold)
        rawKeywords ==
            [i \in 1..Len(confident) |->
                LET dictResult == getDictionaryScore(confident[i].word, dictionaries)
                IN  Keyword(confident[i].word, mapEntityType(confident[i].entity),
                            confident[i].score + (3 * dictResult.score) \div 10,
                            dictResult.sources)]
    IN  sortByScore(MapValues(dedupeByWordAndEntity(rawKeywords, 1, <<>>)))

\* extractNamedEntities of part_006, once the pipeline is loaded: every
\* non-empty chunk is recognized, the score is boosted by the dictionaries
extractNamedEntitiesBoosted(t, ner, dictionaries) ==
    LET sent == sliceChunks(t, chunkSizeDictionaries)
        all  == Concat([k \in 1..Len(sent) |-> ner.items])
        confident == SelectSeq(all, LAMBDA item : item.score > NerThreshold)
        rawKeywords ==
            [i \in 1..Len(confident) |->
                LET dictResult == getDictionaryScore(confident[i].word, dictionaries)
                IN  Keyword(confident[i].word, mapEntityType(confident[i].entity),
                            Min(confident[i].score + (3 * dictResult.score) \div 10, One),
                            dictResult.sources)]
    IN  sortByScore(MapValues(dedupeByWordAndEntity(rawKeywords, 1, <<>>)))

\* extractGeneralKeywords of part_006: the score of keywords.ts plus 0.4 times
\* the dictionary score
extractGeneralKeywordsBoosted(t, dictionaries) ==
    LET words   == generalWords(t, 3)
        counted == countWords(words, 1, <<>>)
        scored  == [i \in 1..Len(counted) |->
                       LET dictResult == getDictionaryScore(counted[i].key, dictionaries)
                       IN  Keyword(capitalize(counted[i].key), KEYWORD,
                                   generalScore(counted[i].key, counted[i].value, Len(words),
                                                technicalTerms \cup technicalTermsAdded)
                                   + (4 * dictResult.score) \div 10,
                                   dictResult.sources)]
        kept    == SelectSeq(scored, LAMBDA k : k.score > GeneralThreshold)
    IN  slice0(sortByScore([i \in 1..Len(kept) |->
                   [kept[i] EXCEPT !.score = Min(kept[i].score, One)]]), 25)

DICTIONARY == <<"D", "I", "C", "T", "I", "O", "N", "A", "R", "Y">>

\* the keywords one dictionary contributes: its terms that occur in the transcript
dictionaryKeywordsOf(t, dictionary) ==
    LET found == SelectSeq(dictionary.terms,
                     LAMBDA term : includes(toLowerCase(t), toLowerCase(term)))
    IN  [i \in 1..Len(found) |->
            Keyword(capitalize(found[i]), DICTIONARY,
                    Min((8 * ((6 * Min(Len(found[i]), 15) * One) \div (10 * 15)
                              + (4 * dictionary.weight) \div 10)) \div 10,
                        One),
                    <<dictionary.name>>)]

extractDictionaryKeywords(t, dictionaries) ==
    sortByScore(Concat([i \in 1..Len(dictionaries) |->
        dictionaryKeywordsOf(t, dictionaries[i])]))

\* extractKeywordsFromTranscript of part_006, called without dynamic sources,
\* once the pipeline is loaded; config is <<>> when no dictionaryConfig is passed
extractKeywordsWithDictionaries(t, ner, config) ==
    LET dictionaries == IF config = <<>> THEN <<>> ELSE loadDictionaries(config[1])
        nerKeywords == extractNamedEntitiesBoosted(t, ner, dictionaries)
        generalKeywords == extractGeneralKeywordsBoosted(t, dictionaries)
        dictionaryKeywords == extractDictionaryKeywords(t, dictionaries)
    IN  KeywordExtractionResult(
            combineKeywords(combineKeywords(nerKeywords, generalKeywords),
                            dictionaryKeywords),
            [i \in 1..Len(dictionaries) |-> dictionaries[i].name])

---------------------------------------------------------------------------
(* Transcripts *)

SIMPLE ==
    <<"H", "e", "l", "l", "o", " ", "w", "o", "r", "l", "d", ".", " ", "T", "h", "i",
      "s", " ", "i", "s", " ", "a", " ", "t", "e", "s", "t", ".", " ", "H", "o", "w",
      " ", "a", "r", "e", " ", "y", "o", "u", " ", "t", "o", "d", "a", "y", "?">>

SHORT_PIECES ==
    <<"A", ".", " ", "B", ".", " ", "C", ".", " ", "T", "h", "i", "s", " ", "i", "s",
      " ", "a", " ", "l", "o", "n", "g", "e", "r", " ", "s", "e", "g", "m", "e", "n",
      "t", ".", " ", "D", ".", " ", "E", ".">>

SPACED ==
    <<" ", " ", "H", "e", "l", "l", "o", " ", " ", " ", "w", "o", "r", "l", "d", ".",
      " ", " ", " ", "T", "h", "i", "s", " ", " ", " ", "i", "s", " ", " ", " ", "a",
      " ", " ", " ", "t", "e", "s", "t", ".", " ", " ", " ">>

SINGLE_SENTENCE ==
    <<"T", "h", "i", "s", " ", "i", "s", " ", "a", " ", "s", "i", "n", "g", "l", "e",
      " ", "s", "e", "n", "t", "e", "n", "c", "e", " ", "w", "i", "t", "h", "o", "u",
      "t", " ", "p", "u", "n", "c", "t", "u", "a", "t", "i", "o", "n">>

SampleTranscripts == {SIMPLE, SHORT_PIECES, SPACED, SINGLE_SENTENCE}

Letters(n) == [i \in 1..n |-> "a"]

\* the pieces transcripts are put together from
Tokens ==
    {<<"a">>, Letters(9), Letters(49), Letters(50),
     <<" ">>, <<" ", " ">>, <<",">>, <<".">>, <<"?">>, [i \in 1..10 |-> "-"]}

MaxTokens == 4

RECURSIVE Flatten(_)
Flatten(ts) == IF ts = <<>> THEN <<>> ELSE Head(ts) \o Flatten(Tail(ts))

TokenTranscripts ==
    {Flatten(ts) : ts \in UNION {[1..n -> Tokens] : n \in 0..MaxTokens}}

Transcripts == TokenTranscripts \cup SampleTranscripts

---------------------------------------------------------------------------
(* The segmenter as a state machine *)

SegInit ==
    /\ transcript \in Transcripts
    /\ segments = <<>>
    /\ segPc = "ready"
    /\ nerReply = [status |-> "ok", items |-> <<>>]
    /\ googleApiKey = FALSE
    /\ kgReplies = <<>>
    /\ revision = "keywords.ts"
    /\ dictionaryConfig = <<>>
    /\ result = EmptyResult
    /\ kwPc = "ready"
    /\ listA = <<>>
    /\ listB = <<>>
    /\ combined = <<>>
    /\ combinePc = "ready"
    /\ NoCalls
    /\ NoTool
    /\ NoLoads
    /\ NoRuns
    /\ NoFetch
    /\ NoLong

ExtractSegments ==
    /\ segPc = "ready"
    /\ LET call == extractSegmentsCall(transcript)
       IN  /\ segments' = call.segments
           /\ lastIndex' = call.lastIndex
    /\ segPc' = "returned"
    /\ UNCHANGED <<transcript, nerReply, googleApiKey, kgReplies, revision,
                   dictionaryConfig, result, kwPc, listA, listB, combined, combinePc,
                   callVars, toolVars, loadVars, extractions, fetchVars, longVars>>

SegNext == ExtractSegments

SegSpec == SegInit /\ [][SegNext]_vars

---------------------------------------------------------------------------
(* extractSegments called several times in one process *)

MaxExtractions == 3

Hyphens == [i \in 1..10 |-> "-"]

\* the transcripts of the successive calls
RepeatTranscripts ==
    {<<>>, <<" ">>, Hyphens, Letters(10), Hyphens \o <<".">> \o Letters(10),
     Letters(10) \o <<".">> \o Hyphens, Hyphens \o <<" ">> \o Hyphens, SIMPLE}

RepeatInit ==
    /\ transcript = <<>>
    /\ segments = <<>>
    /\ segPc = "ready"
    /\ nerReply = [status |-> "ok", items |-> <<>>]
    /\ googleApiKey = FALSE
    /\ kgReplies = <<>>
    /\ revision = "keywords.ts"
    /\ dictionaryConfig = <<>>
    /\ result = EmptyResult
    /\ kwPc = "ready"
    /\ listA = <<>>
    /\ listB = <<>>
    /\ combined = <<>>
    /\ combinePc = "ready"
    /\ NoCalls
    /\ NoTool
    /\ NoLoads
    /\ NoRuns
    /\ NoFetch
    /\ NoLong

\* one more call of extractSegments, with the patterns as the calls before it
\* left them
CallExtractSegments ==
    /\ Len(extractions) < MaxExtractions
    /\ \E t \in RepeatTranscripts :
          LET call == extractSegmentsCall(t)
          IN  /\ extractions' = Append(extractions,
                                       [transcript |-> t, segments |-> call.segments])
              /\ lastIndex' = call.lastIndex
    /\ UNCHANGED <<transcript, segments, segPc, nerReply, googleApiKey, kgReplies,
                   revision, dictionaryConfig, result, kwPc, listA, listB, combined,
                   combinePc, callVars, toolVars, loadVars, fetchVars, longVars>>

RepeatNext == CallExtractSegments

RepeatSpec == RepeatInit /\ [][RepeatNext]_vars

---------------------------------------------------------------------------
(* processLongTranscript on transcripts around MAX_LENGTH *)

\* the largest number of sentences of a long transcript
MaxSentences == 7

\* a sentence of n times the letter c, closed by the marks and a space
Sentence(n, c, marks) == [i \in 1..n |-> c] \o marks \o <<" ">>

\* n - 1 equal sentences and a last one, of another letter or of the same
LongTranscript(n, length, marks, last) ==
    Flatten([k \in 1..n |->
        Sentence(length, IF k = n THEN last ELSE "a", marks)])

\* sentences that fill half a chunk, a chunk, or more than a chunk; the
\* transcript that is one unbroken run of letters; transcripts one character
\* below, at and above MAX_LENGTH
LongTranscripts ==
    {LongTranscript(n, length, marks, last) :
        n \in 4..MaxSentences, length \in {CHUNK_SIZE \div 2 - 2, CHUNK_SIZE - 2, CHUNK_SIZE + 2500},
        marks \in {<<".">>, <<"?", "!">>}, last \in {"a", "z"}}
    \cup {[i \in 1..n |-> "a"] : n \in {MAX_LENGTH - 1, MAX_LENGTH, MAX_LENGTH + 1, MAX_LENGTH + CHUNK_SIZE}}
    \cup {[i \in 1..MAX_LENGTH |-> "a"] \o marks : marks \in {<<".">>, <<"?", "!">>}}

LongInit ==
    /\ transcript \in LongTranscripts
    /\ segments = <<>>
    /\ segPc = "ready"
    /\ nerReply = [status |-> "ok", items |-> <<>>]
    /\ googleApiKey = FALSE
    /\ kgReplies = <<>>
    /\ revision = "keywords.ts"
    /\ dictionaryConfig = <<>>
    /\ result = EmptyResult
    /\ kwPc = "ready"
    /\ listA = <<>>
    /\ listB = <<>>
    /\ combined = <<>>
    /\ combinePc = "ready"
    /\ NoCalls
    /\ NoTool
    /\ NoLoads
    /\ NoRuns
    /\ NoFetch
    /\ NoLong

ProcessLongTranscript ==
    /\ processed = <<>>
    /\ processed' = <<processLongTranscript(transcript)>>
    /\ UNCHANGED <<transcript, segments, segPc, nerReply, googleApiKey, kgReplies,
                   revision, dictionaryConfig, result, kwPc, listA, listB, combined,
                   combinePc, callVars, toolVars, loadVars, regexVars, fetchVars>>

LongNext == ProcessLongTranscript

LongSpec == LongInit /\ [][LongNext]_vars

---------------------------------------------------------------------------
(* Inputs of the keyword extractor *)

\* the words the transcripts of the keyword extractor are made of
KeywordTokens == {<<"A", "p", "p", "l", "e">>, <<"r", "e", "a", "c", "t", ".">>, <<"t", "h", "e">>}

KeywordTranscripts ==
    {JoinWords(ws) : ws \in UNION {[1..n -> KeywordTokens] : n \in 0..MaxWords}}

\* what the entity recognizer may return for a token: word, BIO tag, confidence
NerItem(word, entity, score) == [word |-> word, entity |-> entity, score |-> score]

NerItems ==
    {NerItem(<<"A", "p", "p", "l", "e">>, <<"B", "-", "O", "R", "G">>, (9 * One) \div 10),
     NerItem(<<"A", "p", "p", "l", "e">>, <<"I", "-", "M", "I", "S", "C">>, (4 * One) \div 10),
     NerItem(<<"A", "p", "p", "l", "e">>, <<"B", "-", "O", "R", "G">>, (2 * One) \div 10),
     NerItem(<<"r", "e", "a", "c", "t">>, <<"I", "-", "M", "I", "S", "C">>, (9 * One) \div 10),
     NerItem(<<"r", "e", "a", "c", "t">>, <<"B", "-", "O", "R", "G">>, (4 * One) \div 10),
     NerItem(<<"r", "e", "a", "c", "t">>, <<"O">>, One)}

\* the longest list the recognizer returns for a chunk
MaxNer == 2

SeqsUpTo(S, n) == UNION {[1..k -> S] : k \in 0..n}

\* the recognizer: the pipeline fails to load, the recognition of a chunk
\* throws, or it returns a list of items
NerReplies(n) ==
    {[status |-> "load_error", items |-> <<>>], [status |-> "chunk_error", items |-> <<>>]}
    \cup {[status |-> "ok", items |-> items] : items \in SeqsUpTo(NerItems, n)}

\* an item of the knowledge graph's itemListElement: result.name ("" when
\* missing), result["@type"][0] ("" when missing) and the length of
\* result.detailedDescription.articleBody
KgItem(name, type, length) ==
    [name |-> name, type |-> type, detailedDescriptionLength |-> length]

KgItems ==
    {KgItem(<<"A", "p", "p", "l", "e">>, <<"O", "r", "g", "a", "n", "i", "z", "a", "t", "i", "o", "n">>, 101),
     KgItem(<<"R", "e", "a", "c", "t">>, <<>>, 0),
     KgItem(<<"a", "p", "p", "l", "e">>, <<"B", "-", "C", "o", "r", "p">>, 0),
     KgItem(<<>>, <<"P", "e", "r", "s", "o", "n">>, 0),
     KgItem(<<"B", "a", "n", "a", "n", "a">>, <<"T", "h", "i", "n", "g">>, 101),
     KgItem(<<"A", "p", "p", "l", "e">>, <<"c", "o", "n", "s", "t", "r", "u", "c", "t", "o", "r">>, 0)}

\* a lookup: it throws (HTTP error, timeout), or returns no item or one
KgReplies ==
    {[status |-> "error", items |-> <<>>], [status |-> "ok", items |-> <<>>]}
    \cup {[status |-> "ok", items |-> <<item>>] : item \in KgItems}

NoReplies(t) ==
    [term \in Elements(extractPotentialEntityTerms(t)) |->
        [status |-> "error", items |-> <<>>]]

\* the sources of the dictionary configurations: a weight of 0 is a weight
\* that is not given
DictionarySource(type, terms, weight) == [type |-> type, terms |-> terms, weight |-> weight]

appleReact == DictionarySource("inline", <<<<"A", "p", "p", "l", "e">>, <<"r", "e", "a", "c", "t">>>>, (12 * One) \div 10)
appleOnly == DictionarySource("inline", <<<<"a", "p", "p", "l", "e">>, <<"A", "p", "p", "l", "e">>>>, 0)
reactBanana == DictionarySource("inline", <<<<"r", "e", "a", "c", "t">>, <<"b", "a", "n", "a", "n", "a">>>>, 2 * One)
urlSource == DictionarySource("url", <<>>, One)
otherSource == DictionarySource("ftp", <<>>, One)

\* the dictionaryConfig argument: not passed, or a configuration
DictionaryConfigs ==
    {<<>>}
    \cup {<<[dictionaries |-> sources]>> :
             sources \in {<<>>, <<appleReact>>, <<appleOnly>>, <<appleOnly, reactBanana>>,
                          <<appleReact, reactBanana>>, <<urlSource, otherSource>>}}

Environment(rev, t, ner, apiKey, replies, config) ==
    [revision |-> rev, transcript |-> t, ner |-> ner, apiKey |-> apiKey,
     replies |-> replies, config |-> config]

\* keywords.ts: the recognizer varies, no API key is set
NerEnvironments ==
    {Environment("keywords.ts", t, ner, FALSE, NoReplies(t), <<>>) :
        t \in KeywordTranscripts, ner \in NerReplies(MaxNer)}

\* keywords.ts: the knowledge graph varies, the recognizer returns at most one item
KgEnvironments ==
    UNION {{Environment("keywords.ts", t, ner, TRUE, replies, <<>>) :
               ner \in NerReplies(1),
               replies \in [Elements(extractPotentialEntityTerms(t)) -> KgReplies]} :
           t \in KeywordTranscripts}

\* part_006: the dictionaries vary, the recognizer returns at most one item
DictionaryEnvironments ==
    {Environment("part_006", t, ner, FALSE, NoReplies(t), config) :
        t \in KeywordTranscripts, ner \in NerReplies(1), config \in DictionaryConfigs}

Environments == NerEnvironments \cup KgEnvironments \cup DictionaryEnvironments

KwInit ==
    /\ \E e \in Environments :
          /\ revision = e.revision
          /\ transcript = e.transcript
          /\ nerReply = e.ner
          /\ googleApiKey = e.apiKey
          /\ kgReplies = e.replies
          /\ dictionaryConfig = e.config
    /\ kwPc = "ready"
    /\ result = EmptyResult
    /\ segments = <<>>
    /\ segPc = "ready"
    /\ listA = <<>>
    /\ listB = <<>>
    /\ combined = <<>>
    /\ combinePc = "ready"
    /\ NoCalls
    /\ NoTool
    /\ NoLoads
    /\ NoRuns
    /\ NoFetch
    /\ NoLong

\* the names every object inherits from Object.prototype
inheritedKeys ==
    {<<"c", "o", "n", "s", "t", "r", "u", "c", "t", "o", "r">>, <<"_", "_", "p", "r", "o", "t", "o", "_", "_">>, <<"h", "a", "s", "O", "w", "n", "P", "r", "o", "p", "e", "r", "t", "y">>, <<"i", "s", "P", "r", "o", "t", "o", "t", "y", "p", "e", "O", "f">>,
     <<"p", "r", "o", "p", "e", "r", "t", "y", "I", "s", "E", "n", "u", "m", "e", "r", "a", "b", "l", "e">>, <<"t", "o", "L", "o", "c", "a", "l", "e", "S", "t", "r", "i", "n", "g">>, <<"t", "o", "S", "t", "r", "i", "n", "g">>, <<"v", "a", "l", "u", "e", "O", "f">>,
     <<"_", "_", "d", "e", "f", "i", "n", "e", "G", "e", "t", "t", "e", "r", "_", "_">>, <<"_", "_", "d", "e", "f", "i", "n", "e", "S", "e", "t", "t", "e", "r", "_", "_">>, <<"_", "_", "l", "o", "o", "k", "u", "p", "G", "e", "t", "t", "e", "r", "_", "_">>,
     <<"_", "_", "l", "o", "o", "k", "u", "p", "S", "e", "t", "t", "e", "r", "_", "_">>}

\* groupKeywordsByType throws: acc[entityType] is an inherited member, which is
\* truthy and has no push
groupKeywordsByTypeThrows(list) ==
    \E i \in 1..Len(list) : removeEntryPrefix(list[i].entity) \in inheritedKeys

\* extractKeywordsFromTranscript of keywords.ts: it rejects when the pipeline
\* does not load or the grouping throws, and returns its result otherwise
ExtractKeywords ==
    /\ kwPc = "ready"
    /\ revision = "keywords.ts"
    /\ IF nerReply.status = "load_error"
       THEN kwPc' = "rejected" /\ UNCHANGED result
       ELSE LET returned == extractKeywordsFromTranscript(transcript, nerReply,
                                                          googleApiKey, kgReplies)
            IN  IF groupKeywordsByTypeThrows(returned.keywords)
                THEN kwPc' = "rejected" /\ UNCHANGED result
                ELSE kwPc' = "returned" /\ result' = returned
    /\ UNCHANGED <<transcript, segments, segPc, nerReply, googleApiKey, kgReplies,
                   revision, dictionaryConfig, listA, listB, combined, combinePc,
                   callVars, toolVars,
                   loadVars, regexVars, fetchVars, longVars>>

\* extractKeywordsFromTranscript of part_006: it rejects when the pipeline does
\* not load or the recognition of a chunk throws, and returns its result
\* otherwise
ExtractKeywordsWithDictionaries ==
    /\ kwPc = "ready"
    /\ revision = "part_006"
    /\ IF nerReply.status = "load_error" \/ namedEntitiesThrow(transcript, nerReply)
       THEN kwPc' = "rejected" /\ UNCHANGED result
       ELSE /\ kwPc' = "returned"
            /\ result' = extractKeywordsWithDictionaries(transcript, nerReply,
                                                         dictionaryConfig)
    /\ UNCHANGED <<transcript, segments, segPc, nerReply, googleApiKey, kgReplies,
                   revision, dictionaryConfig, listA, listB, combined, combinePc,
                   callVars, toolVars,
                   loadVars, regexVars, fetchVars, longVars>>

KwNext == ExtractKeywords \/ ExtractKeywordsWithDictionaries

KwSpec == KwInit /\ [][KwNext]_vars

---------------------------------------------------------------------------
(* combineKeywords as a state machine *)

\* the longest list combineKeywords is given
MaxList == 2

\* the keywords the lists are made of
ListKeywords ==
    {Keyword(word, kind.entity, score, kind.sources) :
        word \in {<<"R", "e", "a", "c", "t">>, <<"r", "e", "a", "c", "t">>, <<"A", "p", "p", "l", "e">>},
        score \in {One \div 2, (9 * One) \div 10},
        kind \in {[entity |-> MISC, sources |-> <<"NER">>],
                  [entity |-> KEYWORD, sources |-> <<"General">>]}}

\* every extractor returns its list sorted by descending score
SortedLists ==
    {list \in SeqsUpTo(ListKeywords, MaxList) :
        \A i \in 1..(Len(list) - 1) : list[i].score >= list[i + 1].score}

CombineInit ==
    /\ listA \in SortedLists
    /\ listB \in SortedLists
    /\ combined = <<>>
    /\ combinePc = "ready"
    /\ transcript = <<>>
    /\ segments = <<>>
    /\ segPc = "ready"
    /\ nerReply = [status |-> "ok", items |-> <<>>]
    /\ googleApiKey = FALSE
    /\ kgReplies = <<>>
    /\ revision = "keywords.ts"
    /\ dictionaryConfig = <<>>
    /\ result = EmptyResult
    /\ kwPc = "ready"
    /\ NoCalls
    /\ NoTool
    /\ NoLoads
    /\ NoRuns
    /\ NoFetch
    /\ NoLong

CombineKeywords ==
    /\ combinePc = "ready"
    /\ combined' = combineKeywords(listA, listB)
    /\ combinePc' = "returned"
    /\ UNCHANGED <<transcript, segments, segPc, nerReply, googleApiKey, kgReplies,
                   revision, dictionaryConfig, result, kwPc, listA, listB, callVars,
                   toolVars, loadVars, regexVars, fetchVars, longVars>>

CombineNext == CombineKeywords

CombineSpec == CombineInit /\ [][CombineNext]_vars

---------------------------------------------------------------------------
(* The external calls of an extraction *)

\* the most calls of one kind an extraction of the model issues
MaxCalls == 2

\* the lookups of loadDynamicDictionaries
DynamicKinds == {"urban_dictionary", "wikipedia", "wordnet", "google_knowledge"}

\* the calls made with fetch
FetchKinds == DynamicKinds \cup {"knowledge_graph"}

\* the fetches given an AbortController's signal and a setTimeout that aborts;
\* fetchWordNetTerms passes none
TimedKinds == FetchKinds \ {"wordnet"}

Repeat(kind, n) == [i \in 1..n |-> kind]

\* keywords.ts: the pipeline is loaded, the chunks are recognized, the
\* candidate terms are looked up
CallsOfKeywords ==
    {<<"pipeline">> \o Repeat("ner", chunks) \o Repeat("knowledge_graph", terms) :
        chunks \in 0..MaxCalls, terms \in 0..MaxCalls}

\* part_006: the dynamic dictionaries are loaded, then the pipeline, then the
\* chunks are recognized
CallsOfDictionaries ==
    {lookups \o <<"pipeline">> \o Repeat("ner", chunks) :
        lookups \in SeqsUpTo(DynamicKinds, MaxCalls), chunks \in 0..MaxCalls}

CallInit ==
    /\ \/ revision = "keywords.ts" /\ calls \in CallsOfKeywords
       \/ revision = "part_006" /\ calls \in CallsOfDictionaries
    /\ inFlight = NoCall
    /\ timer = FALSE
    /\ outcomes = <<>>
    /\ callPc = "running"
    /\ transcript = <<>>
    /\ segments = <<>>
    /\ segPc = "ready"
    /\ nerReply = [status |-> "ok", items |-> <<>>]
    /\ googleApiKey = FALSE
    /\ kgReplies = <<>>
    /\ dictionaryConfig = <<>>
    /\ result = EmptyResult
    /\ kwPc = "ready"
    /\ listA = <<>>
    /\ listB = <<>>
    /\ combined = <<>>
    /\ combinePc = "ready"
    /\ NoTool
    /\ NoLoads
    /\ NoRuns
    /\ NoFetch
    /\ NoLong

otherVars ==
    <<transcript, segments, segPc, nerReply, googleApiKey, kgReplies, revision,
      dictionaryConfig, result, kwPc, listA, listB, combined, combinePc, toolVars,
      loadVars, regexVars, fetchVars, longVars>>

\* the extraction issues its next call; a timed fetch arms its abort timer
IssueCall ==
    /\ callPc = "running"
    /\ inFlight = NoCall
    /\ calls # <<>>
    /\ inFlight' = [kind |-> Head(calls),
                    awaiting |-> IF Head(calls) \in FetchKinds THEN "fetch" ELSE "promise"]
    /\ timer' = (Head(calls) \in TimedKinds)
    /\ calls' = Tail(calls)
    /\ UNCHANGED <<outcomes, callPc, otherVars>>

\* the recognizer settles: pipeline(...) or ner(chunk) resolves or rejects.  A
\* pipeline that rejects, and in part_006 a chunk that rejects, rejects the
\* extraction; keywords.ts catches the chunk's rejection
Settle ==
    /\ callPc = "running"
    /\ inFlight.awaiting = "promise"
    /\ \E resolved \in BOOLEAN :
          /\ callPc' = IF ~resolved
                          /\ (inFlight.kind = "pipeline" \/ revision = "part_006")
                       THEN "rejected" ELSE "running"
          /\ outcomes' = Append(outcomes, IF resolved THEN "resolved" ELSE "rejected")
    /\ inFlight' = NoCall
    /\ UNCHANGED <<calls, timer, otherVars>>

\* fetch settles: the response's headers arrive (clearTimeout, then
\* response.json() is awaited when response.ok) or the request fails (caught)
ResponseArrives ==
    /\ callPc = "running"
    /\ inFlight.awaiting = "fetch"
    /\ \E outcome \in {"ok", "not_ok", "network_error"} :
          /\ inFlight' = IF outcome = "ok"
                         THEN [inFlight EXCEPT !.awaiting = "json"] ELSE NoCall
          /\ outcomes' = IF outcome = "ok" THEN outcomes ELSE Append(outcomes, outcome)
    /\ timer' = FALSE
    /\ UNCHANGED <<calls, callPc, otherVars>>

\* response.json() settles: the body is parsed, or it throws (caught)
BodyArrives ==
    /\ callPc = "running"
    /\ inFlight.awaiting = "json"
    /\ inFlight' = NoCall
    /\ \E parsed \in BOOLEAN :
          outcomes' = Append(outcomes, IF parsed THEN "parsed" ELSE "not_parsed")
    /\ UNCHANGED <<calls, timer, callPc, otherVars>>

\* the timer fires: controller.abort() rejects the pending fetch (caught)
Timeout ==
    /\ callPc = "running"
    /\ timer
    /\ inFlight.awaiting = "fetch"
    /\ inFlight' = NoCall
    /\ timer' = FALSE
    /\ outcomes' = Append(outcomes, "aborted")
    /\ UNCHANGED <<calls, callPc, otherVars>>

\* no call is left: the extraction returns
Return ==
    /\ callPc = "running"
    /\ inFlight = NoCall
    /\ calls = <<>>
    /\ callPc' = "returned"
    /\ UNCHANGED <<calls, inFlight, timer, outcomes, otherVars>>

CallNext == IssueCall \/ Settle \/ ResponseArrives \/ BodyArrives \/ Timeout \/ Return

\* the event loop runs the extraction's own steps and a timer that is due; the
\* services answer when they answer, if at all
CallSpec ==
    /\ CallInit
    /\ [][CallNext]_vars
    /\ WF_vars(IssueCall)
    /\ WF_vars(Timeout)
    /\ WF_vars(Return)

---------------------------------------------------------------------------
(* processYouTubeVideo: tools.ts *)

\* segments.slice(0, n)
sliceTo(list, n) ==
    SubSeq(list, 1, IF n < 0 THEN (IF Len(list) + n > 0 THEN Len(list) + n ELSE 0)
                    ELSE Min(n, Len(list)))

\* await extractKeywordsFromTranscript(transcript) of keywords.ts with no API
\* key: <<>> when it rejects, the result in a tuple when it returns
keywordExtraction(t, ner) ==
    IF ner.status = "load_error" THEN <<>>
    ELSE LET returned == extractKeywordsFromTranscript(t, ner, FALSE, NoReplies(t))
         IN  IF groupKeywordsByTypeThrows(returned.keywords) THEN <<>>
             ELSE <<returned>>

\* the result object; keywords is <<>> for null
ProcessYouTubeVideoResult(success, t, keywords, segs, total, message) ==
    [success |-> success, transcript |-> t, keywords |-> keywords,
     segments |-> segs, totalSegments |-> total, message |-> message]

\* a variant without the try around the keyword extraction: its rejection
\* reaches the outer catch
processYouTubeVideoUnguarded(input, outcome, t, ner) ==
    IF outcome = "throws"
    THEN ProcessYouTubeVideoResult(FALSE, <<>>, <<>>, <<>>, 0, <<"error">>)
    ELSE IF outcome = "failure"
    THEN ProcessYouTubeVideoResult(FALSE, <<>>, <<>>, <<>>, 0, <<"transcript">>)
    ELSE IF input.includeKeywords /\ keywordExtraction(t, ner) = <<>>
    THEN ProcessYouTubeVideoResult(FALSE, <<>>, <<>>, <<>>, 0, <<"error">>)
    ELSE ProcessYouTubeVideoResult(TRUE, t,
             IF input.includeKeywords THEN keywordExtraction(t, ner) ELSE <<>>,
             IF input.includeSegments
             THEN sliceTo(extractSegments(t), input.maxSegments) ELSE <<>>,
             IF input.includeSegments THEN Len(extractSegments(t)) ELSE 0,
             <<"transcript">>)

\* execute: outcome is what fetchYouTubeTranscript does, t the transcript it
\* fetched, ner the recognizer; message is the list of the message's parts
processYouTubeVideo(input, outcome, t, ner) ==
    IF outcome = "throws"
    THEN ProcessYouTubeVideoResult(FALSE, <<>>, <<>>, <<>>, 0, <<"error">>)
    ELSE IF outcome = "failure"
    THEN ProcessYouTubeVideoResult(FALSE, <<>>, <<>>, <<>>, 0, <<"transcript">>)
    ELSE LET keywords == IF input.includeKeywords THEN keywordExtraction(t, ner) ELSE <<>>
             failed   == input.includeKeywords /\ keywordExtraction(t, ner) = <<>>
             segs     == extractSegments(t)
         IN  ProcessYouTubeVideoResult(TRUE, t, keywords,
                 IF input.includeSegments THEN sliceTo(segs, input.maxSegments) ELSE <<>>,
                 IF input.includeSegments THEN Len(segs) ELSE 0,
                 IF failed THEN <<"transcript", "Note: Keyword extraction failed.">>
                 ELSE <<"transcript">>)

\* the inputs of the tool
ToolInputs ==
    [includeKeywords : BOOLEAN, includeSegments : BOOLEAN, maxSegments : {-1, 0, 2, 15}]

\* the transcripts the tool fetches
ToolTranscripts == SampleTranscripts \cup {<<>>, JoinWords(<<<<"A", "p", "p", "l", "e">>, <<"r", "e", "a", "c", "t", ".">>>>)}

ToolInit ==
    /\ toolInput \in ToolInputs
    /\ fetchOutcome \in {"success", "failure", "throws"}
    /\ transcript \in ToolTranscripts
    /\ nerReply \in NerReplies(1)
    /\ toolResult = <<>>
    /\ toolPc = "ready"
    /\ segments = <<>>
    /\ segPc = "ready"
    /\ googleApiKey = FALSE
    /\ kgReplies = <<>>
    /\ revision = "keywords.ts"
    /\ dictionaryConfig = <<>>
    /\ result = EmptyResult
    /\ kwPc = "ready"
    /\ listA = <<>>
    /\ listB = <<>>
    /\ combined = <<>>
    /\ combinePc = "ready"
    /\ NoCalls
    /\ NoLoads
    /\ NoRuns
    /\ NoFetch
    /\ NoLong

ProcessYouTubeVideo ==
    /\ toolPc = "ready"
    /\ toolResult' = <<processYouTubeVideo(toolInput, fetchOutcome, transcript, nerReply)>>
    /\ toolPc' = "returned"
    /\ UNCHANGED <<transcript, segments, segPc, nerReply, googleApiKey, kgReplies,
                   revision, dictionaryConfig, result, kwPc, listA, listB, combined,
                   combinePc, callVars, toolInput, fetchOutcome, loadVars, regexVars, fetchVars, longVars>>

ToolNext == ProcessYouTubeVideo

ToolSpec == ToolInit /\ [][ToolNext]_vars

---------------------------------------------------------------------------
(* fetchYouTubeTranscript (utils/yt-dlp.ts) and fetchYouTubeVideoSegments *)

\* slice(0, 200) of the summary
SummaryWords == 200

\* slice(0, 15) of fetchYouTubeVideoSegments
FirstSegments == 15

\* transcript.split(" "): the text between the spaces, the empty strings
\* between two spaces and at the ends included
splitSpace(s) ==
    LET IsSpace(i) == s[i] = " "
        spaces     == SelectSeq([i \in 1..Len(s) |-> i], IsSpace)
        pieces     == Len(spaces) + 1
    IN  [k \in 1..pieces |->
            SubSeq(s, IF k = 1 THEN 1 ELSE spaces[k - 1] + 1,
                      IF k = pieces THEN Len(s) ELSE spaces[k] - 1)]

\* transcript.split(" ").slice(0, 200).join(" ") +
\* (transcript.split(" ").length > 200 ? "..." : "")
summaryOf(t) ==
    JoinWords(sliceTo(splitSpace(t), SummaryWords))
        \o (IF Len(splitSpace(t)) > SummaryWords THEN <<".", ".", ".">> ELSE <<>>)

TranscriptResult(success, t, summary) ==
    [success |-> success, transcript |-> t, transcriptLength |-> Len(t),
     summary |-> summary]

\* fetchYouTubeTranscript: outcome is "no_id" when the URL holds no video id,
\* "throws" when a step throws, "fetched" otherwise, with t the text
\* extractTranscriptViaYtDlp returned
fetchYouTubeTranscript(outcome, t) ==
    IF outcome \in {"no_id", "throws"} \/ t = <<>>
    THEN TranscriptResult(FALSE, <<>>, <<>>)
    ELSE TranscriptResult(TRUE, t, summaryOf(t))

SegmentResult(success, length, segs, total) ==
    [success |-> success, transcriptLength |-> length, segments |-> segs,
     totalSegments |-> total]

\* execute of fetchYouTubeVideoSegments
fetchYouTubeVideoSegments(outcome, t) ==
    LET fetched == fetchYouTubeTranscript(outcome, t)
        segs    == extractSegments(fetched.transcript)
    IN  IF fetched.success
        THEN SegmentResult(TRUE, fetched.transcriptLength,
                           sliceTo(segs, FirstSegments), Len(segs))
        ELSE SegmentResult(FALSE, fetched.transcriptLength, <<>>, 0)

\* n times the word w
Words(n, w) == [i \in 1..n |-> w]

\* the texts parseVTT returns: words joined by single spaces; a word is short
\* or a sentence of its own, its number is around the two slice limits
FetchedTranscripts ==
    LET Lasts == {<<"I">>, <<"a", "b", "c">>, Append(Letters(10), "?")}
    IN  {JoinWords(Append(Words(n, <<"a", "b">>), last)) :
            n \in {0, 1, SummaryWords - 1, SummaryWords}, last \in Lasts}
        \cup
        {JoinWords(Append(Words(n, Append(Letters(10), ".")), last)) :
            n \in {1, FirstSegments - 1, FirstSegments, FirstSegments + 1}, last \in Lasts}

FetchInit ==
    /\ fetchOutcome \in {"no_id", "throws", "fetched"}
    /\ transcript \in FetchedTranscripts \cup {<<>>}
    /\ segments = <<>>
    /\ segPc = "ready"
    /\ nerReply = [status |-> "ok", items |-> <<>>]
    /\ googleApiKey = FALSE
    /\ kgReplies = <<>>
    /\ revision = "keywords.ts"
    /\ dictionaryConfig = <<>>
    /\ result = EmptyResult
    /\ kwPc = "ready"
    /\ listA = <<>>
    /\ listB = <<>>
    /\ combined = <<>>
    /\ combinePc = "ready"
    /\ toolInput = [includeKeywords |-> TRUE, includeSegments |-> TRUE, maxSegments |-> 15]
    /\ toolResult = <<>>
    /\ toolPc = "ready"
    /\ NoCalls
    /\ NoLoads
    /\ NoRuns
    /\ NoFetch
    /\ NoLong

notFetchVars ==
    <<transcript, segments, segPc, nerReply, googleApiKey, kgReplies, revision,
      dictionaryConfig, result, kwPc, listA, listB, combined, combinePc, callVars,
      toolVars, loadVars, regexVars, longVars>>

FetchYouTubeTranscript ==
    /\ transcriptResult = <<>>
    /\ transcriptResult' = <<fetchYouTubeTranscript(fetchOutcome, transcript)>>
    /\ UNCHANGED <<segmentResult, notFetchVars>>

FetchYouTubeVideoSegments ==
    /\ segmentResult = <<>>
    /\ segmentResult' = <<fetchYouTubeVideoSegments(fetchOutcome, transcript)>>
    /\ UNCHANGED <<transcriptResult, notFetchVars>>

FetchNext == FetchYouTubeTranscript \/ FetchYouTubeVideoSegments

FetchSpec == FetchInit /\ [][FetchNext]_vars

---------------------------------------------------------------------------
(* The dictionary loader and its cache: part_006 *)

\* the longest list of sources a configuration of the model has
MaxSources == 2

\* a source as written by the caller: its properties and the order they were
\* written in
Described(source, order) == [source |-> source, order |-> order]

\* JSON.stringify(source): the properties in the order they were written
JSONstringify(described) == <<described.order, described.source>>

inlineSource == DictionarySource("inline", <<<<"A", "p", "p", "l", "e">>, <<"r", "e", "a", "c", "t">>>>, 2 * One)
fileSource == DictionarySource("file", <<>>, 0)

\* the sources of the loader: an inline source written in two orders, a file
\* and a source of an unknown type
DescribedSources ==
    {Described(inlineSource, <<"type", "terms", "weight">>),
     Described(inlineSource, <<"weight", "type", "terms">>),
     Described(fileSource, <<"type", "path">>),
     Described(otherSource, <<"type", "weight">>)}

\* what readFileSync finds at the path: nothing readable, or lines
Files ==
    {[readable |-> FALSE, lines |-> <<>>],
     [readable |-> TRUE, lines |-> <<<<" ", "B", "a", "n", "a", "n", "a", " ">>, <<>>, <<"r", "e", "a", "c", "t">>>>],
     [readable |-> TRUE, lines |-> <<<<"a", "p", "p", "l", "e">>>>]}

\* the switch of loadDictionary with the file system: a readable file gives its
\* trimmed, lowercased, non-empty lines; a file that cannot be read throws
\* inside the try and gives the "Error" dictionary
loadDictionaryFrom(source, file) ==
    IF source.type = "file"
    THEN IF file.readable
         THEN Dictionary("File: terms.txt",
                         unique(SelectSeq([i \in 1..Len(file.lines) |->
                                              toLowerCase(trim(file.lines[i]))],
                                          NonEmpty)),
                         IF source.weight = 0 THEN One ELSE source.weight)
         ELSE Dictionary("Error", <<>>, 0)
    ELSE loadDictionary(source)

\* a Dictionary object: the dictionary and the identity of the object
Allocate(dictionary, id) ==
    [id |-> id, name |-> dictionary.name, terms |-> dictionary.terms,
     weight |-> dictionary.weight]

\* a loadDictionaries call: its configuration, the sources it has still to
\* load, the loadDictionary calls it made, the dictionaries it has pushed, the
\* dictionary it awaits and its position
Caller(sources) ==
    [config |-> sources, sources |-> sources, loads |-> <<>>, dictionaries |-> <<>>,
     awaited |-> <<>>, pc |-> "loop"]

\* a loadDictionary call: its source, whether the cache answered, whether the
\* file could be read, whether the call threw, and the dictionary it returned
Load(described, cached, readable, dictionary) ==
    [source |-> described, cached |-> cached, readable |-> readable, threw |-> FALSE,
     dictionary |-> dictionary]

LoadInit ==
    /\ \E first \in SeqsUpTo(DescribedSources, MaxSources), second \in DescribedSources :
          callers = <<Caller(first), Caller(<<second>>)>>
    /\ dictionaryCache = <<>>
    /\ lastLoad = <<>>
    /\ allocated = 0
    /\ insertions = <<>>
    /\ transcript = <<>>
    /\ segments = <<>>
    /\ segPc = "ready"
    /\ nerReply = [status |-> "ok", items |-> <<>>]
    /\ googleApiKey = FALSE
    /\ kgReplies = <<>>
    /\ revision = "part_006"
    /\ dictionaryConfig = <<>>
    /\ result = EmptyResult
    /\ kwPc = "ready"
    /\ listA = <<>>
    /\ listB = <<>>
    /\ combined = <<>>
    /\ combinePc = "ready"
    /\ NoCalls
    /\ NoTool
    /\ NoRuns
    /\ NoFetch
    /\ NoLong

notLoadVars ==
    <<transcript, segments, segPc, nerReply, googleApiKey, kgReplies, revision,
      dictionaryConfig, result, kwPc, listA, listB, combined, combinePc, callVars,
      toolVars, regexVars, fetchVars, longVars>>

\* loadDictionary(source), called by the loop of caller c: a cached dictionary
\* is returned as it is; otherwise the source is loaded and, unless the load
\* threw inside the try, the new dictionary is put into the cache.  The call
\* never throws: the catch returns the "Error" dictionary.
LoadDictionary(c) ==
    /\ callers[c].pc = "loop"
    /\ callers[c].sources # <<>>
    /\ LET described == Head(callers[c].sources)
           cacheKey  == JSONstringify(described)
       IN  IF MapHas(dictionaryCache, cacheKey)
           THEN LET load == Load(described, TRUE, TRUE, MapGet(dictionaryCache, cacheKey))
                IN  /\ callers' = [callers EXCEPT ![c].sources = Tail(@),
                                                  ![c].loads = Append(@, load),
                                                  ![c].awaited = <<load.dictionary>>,
                                                  ![c].pc = "awaiting"]
                    /\ lastLoad' = <<load>>
                    /\ UNCHANGED <<dictionaryCache, allocated, insertions>>
           ELSE \E file \in IF described.source.type = "file" THEN Files
                            ELSE {[readable |-> TRUE, lines |-> <<>>]} :
                   LET dictionary ==
                           Allocate(loadDictionaryFrom(described.source, file), allocated + 1)
                       load == Load(described, FALSE, file.readable, dictionary)
                   IN  /\ allocated' = allocated + 1
                       /\ IF dictionary.name = "Error"
                          THEN UNCHANGED <<dictionaryCache, insertions>>
                          ELSE /\ dictionaryCache' = MapSet(dictionaryCache, cacheKey, dictionary)
                               /\ insertions' = Append(insertions,
                                                       [key |-> cacheKey, value |-> dictionary])
                       /\ callers' = [callers EXCEPT ![c].sources = Tail(@),
                                                     ![c].loads = Append(@, load),
                                                     ![c].awaited = <<dictionary>>,
                                                     ![c].pc = "awaiting"]
                       /\ lastLoad' = <<load>>
    /\ UNCHANGED notLoadVars

\* a variant that pushes every dictionary, the ones without a term too
ResumePushingAll(c) ==
    /\ callers[c].pc = "awaiting"
    /\ callers' = [callers EXCEPT
                      ![c].dictionaries = Append(@, callers[c].awaited[1]),
                      ![c].awaited = <<>>,
                      ![c].pc = "loop"]
    /\ UNCHANGED <<dictionaryCache, lastLoad, allocated, insertions, notLoadVars>>

\* the await of caller c resumes: a dictionary that has a term is pushed
Resume(c) ==
    /\ callers[c].pc = "awaiting"
    /\ callers' = [callers EXCEPT
                      ![c].dictionaries =
                          IF Len(callers[c].awaited[1].terms) > 0
                          THEN Append(@, callers[c].awaited[1]) ELSE @,
                      ![c].awaited = <<>>,
                      ![c].pc = "loop"]
    /\ UNCHANGED <<dictionaryCache, lastLoad, allocated, insertions, notLoadVars>>

\* the loop of caller c is over: loadDictionaries returns its dictionaries
ReturnDictionaries(c) ==
    /\ callers[c].pc = "loop"
    /\ callers[c].sources = <<>>
    /\ callers' = [callers EXCEPT ![c].pc = "returned"]
    /\ UNCHANGED <<dictionaryCache, lastLoad, allocated, insertions, notLoadVars>>

LoadNext ==
    \E c \in 1..2 : LoadDictionary(c) \/ Resume(c) \/ ReturnDictionaries(c)

LoadSpec == LoadInit /\ [][LoadNext]_vars

---------------------------------------------------------------------------
(* Reference description of the segmenter's result, by positions in the    *)
(* transcript rather than by scanning it                                   *)

\* the positions of the characters of seps in s, with both ends of s
Cuts(s, seps) == {0, Len(s) + 1} \cup {i \in 1..Len(s) : s[i] \in seps}

\* the gaps between neighbouring cuts, as <<first, last>> index pairs
Gaps(s, seps, keepEmpty) ==
    LET cuts == Cuts(s, seps)
    IN  {<<a + 1, b - 1>> : <<a, b>> \in
            {g \in cuts \X cuts :
                /\ g[1] < g[2]
                /\ keepEmpty \/ g[2] > g[1] + 1
                /\ \A c \in cuts : ~(g[1] < c /\ c < g[2])}}

\* a set of index pairs as the sequence of the texts they delimit, left to right
RECURSIVE InOrder(_, _)
InOrder(s, gaps) ==
    IF gaps = {} THEN <<>>
    ELSE LET g == CHOOSE x \in gaps : \A y \in gaps : x[1] <= y[1]
         IN  <<SubSeq(s, g[1], g[2])>> \o InOrder(s, gaps \ {g})

\* s without its leading and trailing whitespace
Stripped(s) ==
    LET ink == {i \in 1..Len(s) : ~IsWhitespace(s[i])}
    IN  IF ink = {} THEN <<>>
        ELSE SubSeq(s, CHOOSE i \in ink : \A j \in 1..(i - 1) : IsWhitespace(s[j]),
                       CHOOSE i \in ink : \A j \in (i + 1)..Len(s) : IsWhitespace(s[j]))

\* s stripped, every inner whitespace run shown as one space
Normal(s) ==
    LET t       == Stripped(s)
        Kept(i) == ~IsWhitespace(t[i]) \/ ~IsWhitespace(t[i - 1])
        keep    == SelectSeq([i \in 1..Len(t) |-> i], Kept)
    IN  [k \in 1..Len(keep) |-> IF IsWhitespace(t[keep[k]]) THEN " " ELSE t[keep[k]]]

HasWord(s) == \E i \in 1..Len(s) : IsWordChar(s[i]) \/ IsWhitespace(s[i])

Passes(s) == Len(s) >= MinSegmentLength /\ HasWord(s)

\* the texts of s between the characters of seps, stripped, blank ones left out
StrippedGaps(s, seps, keepEmpty) ==
    LET texts == InOrder(s, Gaps(s, seps, keepEmpty))
    IN  SelectSeq([i \in 1..Len(texts) |-> Stripped(texts[i])], NonEmpty)

\* the non-blank texts between delimiter runs, stripped, left to right
DelimiterPieces(t) == StrippedGaps(t, segmentDelimiters, FALSE)

\* the non-blank texts between the commas of a piece, stripped, left to right
CommaParts(p) == StrippedGaps(p, {","}, TRUE)

\* the pieces after the comma rule
FinalPieces(t) ==
    LET ps == DelimiterPieces(t)
    IN  Concat([i \in 1..Len(ps) |->
                   IF Len(ps[i]) > CommaSplitLength THEN CommaParts(ps[i])
                   ELSE <<ps[i]>>])

\* the surviving pieces, normalized and closed by a full stop
ExpectedSegments(t) ==
    LET final == FinalPieces(t)
        kept  == SelectSeq([i \in 1..Len(final) |-> Normal(final[i])], Passes)
    IN  [i \in 1..Len(kept) |-> Append(kept[i], ".")]

Blank(t) == \A i \in 1..Len(t) : IsWhitespace(t[i])

HasWordRun(t, n) ==
    \E i \in 1..(Len(t) - n + 1) : \A j \in i..(i + n - 1) : IsWordChar(t[j])


---------------------------------------------------------------------------
(* Claims about extractSegments *)

WellFormedSegment(s) ==
    /\ Len(s) >= MinSegmentLength
    /\ HasWord(s)
    /\ s[Len(s)] \in {".", "!", "?"}
    /\ \A i \in 1..(Len(s) - 1) : ~(IsWhitespace(s[i]) /\ IsWhitespace(s[i + 1]))
    /\ ~IsWhitespace(s[1])
    /\ ~IsWhitespace(s[Len(s)])

\* C1: every string extractSegments returns has at least 10 characters, is not
\* made of punctuation alone (it holds a word or whitespace character), ends in
\* '.', '!' or '?', holds no two whitespace characters in a row and neither
\* starts nor ends with whitespace.
C1_SegmentsWellFormed ==
    segPc = "returned" => \A i \in 1..Len(segments) : WellFormedSegment(segments[i])

\* C1 witness: the call on "  Hello   world.   This   is   a   test.   " returned
\* its two segments.
C1_Witness ==
    segPc = "returned" /\ transcript = SPACED /\ Len(segments) = 2

\* C2 as stated: the result is empty exactly when the trimmed transcript is empty.
C2_EmptyIffBlank ==
    segPc = "returned" => (segments = <<>> <=> Len(trim(transcript)) = 0)

\* C2 as amended: a blank transcript yields the empty list, and a transcript
\* that holds 10 word characters in a row never does; other non-blank
\* transcripts may yield the empty list.
C2_EmptyAmended ==
    segPc = "returned" =>
        /\ Blank(transcript) => segments = <<>>
        /\ HasWordRun(transcript, MinSegmentLength) => segments # <<>>

\* C2 witness: the call on a non-empty transcript of whitespace alone returned.
C2_Witness ==
    segPc = "returned" /\ Len(transcript) > 0 /\ Blank(transcript)

HelloWorld ==
    <<"H", "e", "l", "l", "o", " ", "w", "o", "r", "l", "d", ".">>

ThisIsATest ==
    <<"T", "h", "i", "s", " ", "i", "s", " ", "a", " ", "t", "e", "s", "t", ".">>

HowAreYouTodayQ ==
    <<"H", "o", "w", " ", "a", "r", "e", " ", "y", "o", "u", " ", "t", "o", "d", "a",
      "y", "?">>

LongerSegment ==
    <<"T", "h", "i", "s", " ", "i", "s", " ", "a", " ", "l", "o", "n", "g", "e", "r",
      " ", "s", "e", "g", "m", "e", "n", "t", ".">>

\* C3: "Hello world. This is a test. How are you today?" yields "Hello world.",
\* "This is a test." and "How are you today?", the question mark kept.
C3_SimpleScenario ==
    (segPc = "returned" /\ transcript = SIMPLE) =>
        segments = <<HelloWorld, ThisIsATest, HowAreYouTodayQ>>

\* C4: the result is the sequence of the delimiter-split and comma-re-split
\* pieces that pass the filter, in transcript order, none dropped, merged or
\* reordered, every shorter piece dropped; "A. B. C. This is a longer segment.
\* D. E." yields only "This is a longer segment.".
C4_ExactlySurvivingPieces ==
    segPc = "returned" =>
        /\ segments = ExpectedSegments(transcript)
        /\ transcript = SHORT_PIECES => segments = <<LongerSegment>>

\* C4 witness: a returned list that holds the same segment twice.
C4_Witness ==
    /\ segPc = "returned"
    /\ Len(segments) = 2
    /\ segments[1] = segments[2]

HasComma(s) == \E i \in 1..Len(s) : s[i] = ","

\* C5: a delimiter-split piece is split at its commas if and only if its trimmed
\* length exceeds 100: a piece of at most 100 characters that passes the filter
\* is returned whole, with its commas; the comma parts of a longer piece are
\* returned one by one, and no returned segment with a comma comes from a piece
\* longer than 100.
C5_CommaSplitIffLong ==
    segPc = "returned" =>
        LET ps == DelimiterPieces(transcript)
            short == {ps[i] : i \in {j \in 1..Len(ps) : Len(ps[j]) <= CommaSplitLength}}
            long  == {ps[i] : i \in {j \in 1..Len(ps) : Len(ps[j]) > CommaSplitLength}}
        IN  /\ \A p \in short :
                  Passes(Normal(p)) => Append(Normal(p), ".") \in Elements(segments)
            /\ \A p \in long : \A q \in Elements(CommaParts(p)) :
                  Passes(Normal(q)) => Append(Normal(q), ".") \in Elements(segments)
            /\ \A s \in Elements(segments) :
                  HasComma(s) => \E p \in short : s = Append(Normal(p), ".")

\* C5 witness: a piece of exactly 100 characters with a comma was returned whole.
C5_Witness ==
    /\ segPc = "returned"
    /\ Len(trim(transcript)) = CommaSplitLength
    /\ HasComma(transcript)
    /\ Len(segments) = 1
    /\ Len(segments[1]) = CommaSplitLength + 1

\* C5, the other side: a piece of 101 characters with a comma was split in two.
C5_WitnessSplit ==
    /\ segPc = "returned"
    /\ Len(trim(transcript)) = CommaSplitLength + 1
    /\ Len(DelimiterPieces(transcript)) = 1
    /\ Len(segments) = 2

---------------------------------------------------------------------------
(* Claims about the keyword extractor *)

Max(a, b) == IF a >= b THEN a ELSE b

\* the lowercased words of a list of keywords
WordsOf(list) == {toLowerCase(list[i].word) : i \in 1..Len(list)}

\* the keywords of a list that have the word, compared case-insensitively
EntriesFor(list, word) == SelectSeq(list, LAMBDA k : toLowerCase(k.word) = word)

\* C6: every keyword of a result extractKeywordsFromTranscript returns, in
\* either revision, has a score greater than 0 and at most 1, whatever the
\* recognizer (confidences in [0,1]), the knowledge graph and the dictionaries
\* (of positive weight) are.
C6_ScoreInUnitInterval ==
    kwPc = "returned" =>
        \A i \in 1..Len(result.keywords) :
            /\ result.keywords[i].score > 0
            /\ result.keywords[i].score <= One

\* a result with a keyword whose boosted score was capped at 1 and a keyword
\* below 1 that a dictionary boosted
C6_Witness ==
    /\ kwPc = "returned"
    /\ revision = "part_006"
    /\ \E i, j \in 1..Len(result.keywords) :
          /\ result.keywords[i].score = One
          /\ result.keywords[j].score < One
          /\ result.keywords[j].sources # <<>>

\* C7 (as claimed): when a word is in both lists, the keyword combineKeywords
\* returns for it has the greater of the two scores and, as sources, the union
\* of the sources of the two entries.
C7_MergeLaw ==
    combinePc = "returned" =>
        \A word \in WordsOf(listA) \cap WordsOf(listB) :
            LET a == EntriesFor(listA, word)
                b == EntriesFor(listB, word)
                m == EntriesFor(combined, word)
            IN  (Len(a) = 1 /\ Len(b) = 1) =>
                    /\ Len(m) = 1
                    /\ m[1].score = Max(a[1].score, b[1].score)
                    /\ Elements(m[1].sources)
                           = Elements(a[1].sources) \cup Elements(b[1].sources)

\* the keywords the extraction methods of the revision produced
producedKeywords ==
    IF revision = "keywords.ts"
    THEN extractNamedEntities(processLongTranscript(transcript), nerReply)
         \o extractGeneralKeywords(processLongTranscript(transcript))
         \o extractKnowledgeGraphKeywords(processLongTranscript(transcript),
                                          googleApiKey, kgReplies)
    ELSE LET dictionaries == IF dictionaryConfig = <<>> THEN <<>>
                             ELSE loadDictionaries(dictionaryConfig[1])
         IN  extractNamedEntitiesBoosted(transcript, nerReply, dictionaries)
             \o extractGeneralKeywordsBoosted(transcript, dictionaries)
             \o extractDictionaryKeywords(transcript, dictionaries)

\* C8 (as claimed): the returned list holds exactly one keyword for each
\* lowercased word a method produced, and it has the highest score any method
\* produced for the word, also when the recognizer reports the word under two
\* entity categories.
C8_OnePerWordHighestScore ==
    kwPc = "returned" =>
        /\ WordsOf(result.keywords) = WordsOf(producedKeywords)
        /\ \A word \in WordsOf(producedKeywords) :
              LET m == EntriesFor(result.keywords, word)
                  p == EntriesFor(producedKeywords, word)
              IN  /\ Len(m) = 1
                  /\ \A i \in 1..Len(p) : m[1].score >= p[i].score

\* C9: in every result extractKeywordsFromTranscript returns, totalCount is
\* the length of keywords.
C9_TotalCountIsLength ==
    kwPc = "returned" => result.totalCount = Len(result.keywords)

\* a result of two keywords or more
C9_Witness ==
    /\ kwPc = "returned"
    /\ result.totalCount >= 2

\* an entity category without its leading B- or I-
WithoutBIO(entity) ==
    IF Len(entity) >= 2 /\ SubSeq(entity, 1, 2) \in {<<"B", "-">>, <<"I", "-">>}
    THEN [i \in 1..(Len(entity) - 2) |-> entity[i + 2]]
    ELSE entity

\* the position of a keyword in a list that holds it
PositionIn(list, k) == CHOOSE i \in 1..Len(list) : list[i] = k

\* C10: groupedKeywords is a partition of keywords: every keyword is in one
\* bucket only, the bucket named by its entity without a leading B- or I-; no
\* bucket is empty or holds a keyword that is not in keywords; and the keywords
\* of a bucket are in the order they have in keywords.
C10_GroupedIsPartition ==
    kwPc = "returned" =>
        LET keywords == result.keywords
            grouped  == result.groupedKeywords
        IN  /\ \A i \in 1..Len(keywords) :
                  {b \in DOMAIN grouped : keywords[i] \in Elements(grouped[b])}
                      = {WithoutBIO(keywords[i].entity)}
            /\ \A b \in DOMAIN grouped :
                  /\ grouped[b] # <<>>
                  /\ Elements(grouped[b]) \subseteq Elements(keywords)
                  /\ \A p, q \in 1..Len(grouped[b]) :
                        p < q => PositionIn(keywords, grouped[b][p])
                                     < PositionIn(keywords, grouped[b][q])

\* a result of two buckets, one of them named by an entity whose B- was stripped
C10_Witness ==
    /\ kwPc = "returned"
    /\ Cardinality(DOMAIN result.groupedKeywords) >= 2
    /\ \E i \in 1..Len(result.keywords) :
          /\ WithoutBIO(result.keywords[i].entity) # result.keywords[i].entity
          /\ WithoutBIO(result.keywords[i].entity) \in DOMAIN result.groupedKeywords

\* C11: the keywords of a returned result are in non-increasing order of
\* score, whatever the lists that were merged.
C11_SortedByScore ==
    kwPc = "returned" =>
        \A i, j \in 1..Len(result.keywords) :
            i < j => result.keywords[i].score >= result.keywords[j].score

\* a result of two scores whose first keyword was also produced with a score
\* below the second keyword's
C11_Witness ==
    /\ kwPc = "returned"
    /\ Len(result.keywords) >= 2
    /\ result.keywords[1].score > result.keywords[2].score
    /\ \E k \in Elements(producedKeywords) :
          /\ toLowerCase(k.word) = toLowerCase(result.keywords[1].word)
          /\ k.score < result.keywords[2].score

\* C12 (as claimed): for the empty transcript extractKeywordsFromTranscript
\* does not reject, and what it returns is keywords = [], groupedKeywords = {},
\* totalCount = 0 and dictionariesUsed = [], whatever the dictionary
\* configuration is.
C12_EmptyTranscript ==
    (transcript = <<>> /\ kwPc # "ready") =>
        /\ kwPc = "returned"
        /\ result.keywords = <<>>
        /\ DOMAIN result.groupedKeywords = {}
        /\ result.totalCount = 0
        /\ result.dictionariesUsed = <<>>

\* the names a dictionary of the model can have
DictionaryNames == {"Google Knowledge Graph", "Inline Dictionary", "URL", "API", "Error"}

\* a dictionary contributed a match: a keyword some method produced names it
\* among its sources
Contributed(name) == \E k \in Elements(producedKeywords) : name \in Elements(k.sources)

\* C13 (as claimed): dictionariesUsed holds the name of a dictionary exactly
\* when the dictionary contributed a match on the transcript; a loaded
\* dictionary none of whose terms occurs is not listed.
C13_UsedIffContributed ==
    kwPc = "returned" =>
        \A name \in DictionaryNames \cup Elements(result.dictionariesUsed) :
            name \in Elements(result.dictionariesUsed) <=> Contributed(name)

\* an external call of the extraction fails: the recognizer does not load, the
\* recognition of a chunk throws, or a knowledge-graph lookup throws
SomeCallFails ==
    \/ nerReply.status \in {"load_error", "chunk_error"}
    \/ /\ googleApiKey
       /\ \E term \in DOMAIN kgReplies : kgReplies[term].status = "error"

\* the grouping of the merged keywords throws, whatever the external calls do
GroupingThrows ==
    /\ revision = "keywords.ts"
    /\ groupKeywordsByTypeThrows(
           extractKeywordsFromTranscript(transcript, nerReply, googleApiKey,
                                         kgReplies).keywords)

\* C14 (as claimed): when an external call fails, the extraction does not
\* reject: it returns a well-formed result that holds the words of the chunks,
\* candidates and dictionaries that did not fail.
C14_FailureIsolated ==
    (kwPc # "ready" /\ SomeCallFails /\ ~GroupingThrows) =>
        /\ kwPc = "returned"
        /\ result.totalCount = Len(result.keywords)
        /\ WordsOf(result.keywords) = WordsOf(producedKeywords)

\* C15 (as claimed): every external call that is issued eventually completes or
\* is aborted, and the extraction eventually returns or rejects.
C15_EveryCallEnds ==
    /\ [](inFlight # NoCall => <>(inFlight = NoCall))
    /\ <>(callPc # "running")

\* the keyword extraction of processYouTubeVideo is requested and fails
KeywordExtractionFails ==
    /\ fetchOutcome = "success"
    /\ toolInput.includeKeywords
    /\ \/ nerReply.status = "load_error"
       \/ groupKeywordsByTypeThrows(
              extractKeywordsFromTranscript(transcript, nerReply, FALSE,
                                            NoReplies(transcript)).keywords)

\* C16: when the transcript was fetched and the keyword extraction fails, the
\* result of processYouTubeVideo has success = true and keywords = null, and
\* its segments and totalSegments are those of the transcript: the first
\* maxSegments segments and the number of all segments when segments are
\* requested, none and 0 otherwise.
C16_PartialSuccess ==
    (toolPc = "returned" /\ KeywordExtractionFails) =>
        /\ toolResult[1].success
        /\ toolResult[1].keywords = <<>>
        /\ toolResult[1].totalSegments
               = IF toolInput.includeSegments THEN Len(ExpectedSegments(transcript)) ELSE 0
        /\ Len(toolResult[1].segments) <= toolResult[1].totalSegments
        /\ \A i \in 1..Len(toolResult[1].segments) :
              toolResult[1].segments[i] = ExpectedSegments(transcript)[i]
        /\ (toolInput.includeSegments /\ toolInput.maxSegments >= 0) =>
              Len(toolResult[1].segments)
                  = Min(toolInput.maxSegments, toolResult[1].totalSegments)

\* the keyword extraction failed and the result holds some of the segments
C16_Witness ==
    /\ toolPc = "returned"
    /\ KeywordExtractionFails
    /\ toolResult[1].success
    /\ Len(toolResult[1].segments) > 0
    /\ toolResult[1].totalSegments > Len(toolResult[1].segments)

\* the types loadDictionary has a case for
KnownTypes ==
    {"file", "url", "inline", "api", "urban_dictionary", "wikipedia", "wordnet",
     "google_knowledge"}

\* C17 (as claimed): loadDictionary called with a source of an unknown type
\* raises an error synchronously.
C17_UnknownTypeRaises ==
    (lastLoad # <<>> /\ lastLoad[1].source.source.type \notin KnownTypes) =>
        lastLoad[1].threw

\* a loadDictionary call that found nothing to load: its source's type is
\* unknown, or its file could not be read
Bad(load) ==
    /\ ~load.cached
    /\ \/ load.source.source.type \notin KnownTypes
       \/ load.source.source.type = "file" /\ ~load.readable

\* C18: a loadDictionaries call over sources one of which is bad returns the
\* dictionaries of all the other sources that have a term, in source order; the
\* bad source gives a dictionary without terms and of weight 0 that is not in
\* the returned list; the call does not reject.
C18_BadSourceIsolated ==
    \A c \in DOMAIN callers :
        callers[c].pc = "returned" =>
            LET loads == callers[c].loads
                good  == SelectSeq(loads, LAMBDA load :
                             ~Bad(load) /\ Len(load.dictionary.terms) > 0)
            IN  /\ [i \in 1..Len(loads) |-> loads[i].source] = callers[c].config
                /\ callers[c].dictionaries = [i \in 1..Len(good) |-> good[i].dictionary]
                /\ \A i \in 1..Len(loads) :
                      Bad(loads[i]) =>
                          /\ loads[i].dictionary.terms = <<>>
                          /\ loads[i].dictionary.weight = 0
                          /\ loads[i].dictionary \notin Elements(callers[c].dictionaries)

\* a call that returned a dictionary loaded after a bad source
C18_Witness ==
    \E c \in DOMAIN callers :
        /\ callers[c].pc = "returned"
        /\ Len(callers[c].loads) = 2
        /\ Bad(callers[c].loads[1])
        /\ callers[c].dictionaries = <<callers[c].loads[2].dictionary>>

\* a loadDictionary call whose source equals the source of a cache entry
\* returned the dictionary of that entry
C19_SameDictionary ==
    lastLoad # <<>> =>
        \A i \in 1..Len(dictionaryCache) :
            dictionaryCache[i].key[2] = lastLoad[1].source.source =>
                lastLoad[1].dictionary = dictionaryCache[i].value

\* every entry ever put into the cache is still there, with the dictionary it
\* was put in with
C19_EntriesKept ==
    \A i \in 1..Len(insertions) :
        /\ MapHas(dictionaryCache, insertions[i].key)
        /\ MapGet(dictionaryCache, insertions[i].key) = insertions[i].value

\* C19 (as claimed): once a source is loaded, every later loadDictionary call
\* with an equal source returns the cached dictionary without loading again,
\* and under any interleaving of callers a cache entry is never replaced,
\* removed or changed.
C19_CacheStable == C19_SameDictionary /\ C19_EntriesKept

\* C20: running extractSegments twice on the same input yields identical
\* output: any two calls made in one process with the same transcript, whatever
\* calls came before them, return the same list.
C20_SameInputSameOutput ==
    \A i, j \in 1..Len(extractions) :
        extractions[i].transcript = extractions[j].transcript =>
            extractions[i].segments = extractions[j].segments

\* the same transcript, of which one piece is dropped as punctuation and one
\* is kept, segmented before and after a call with another transcript
C20_Witness ==
    /\ Len(extractions) = 3
    /\ extractions[1].transcript = Hyphens \o <<".">> \o Letters(10)
    /\ extractions[2].transcript = Hyphens
    /\ extractions[3].transcript = extractions[1].transcript
    /\ Len(extractions[3].segments) = 1

\* C21 (as claimed): in every successful result of fetchYouTubeVideoSegments,
\* totalSegments equals the length of segments.
C21_TotalIsLength ==
    (segmentResult # <<>> /\ segmentResult[1].success) =>
        segmentResult[1].totalSegments = Len(segmentResult[1].segments)

\* C23 (as claimed): in every successful result of fetchYouTubeTranscript the
\* summary is not empty and is not longer than the transcript.
C23_SummaryWithinTranscript ==
    (transcriptResult # <<>> /\ transcriptResult[1].success) =>
        /\ Len(transcriptResult[1].summary) > 0
        /\ Len(transcriptResult[1].summary) <= Len(transcriptResult[1].transcript)

\* the half of C23 that holds: the summary of a successful result is not empty
C23_SummaryNotEmpty ==
    (transcriptResult # <<>> /\ transcriptResult[1].success) =>
        Len(transcriptResult[1].summary) > 0

\* C22 (as claimed): for every maxSegments the input schema accepts, the
\* segments list processYouTubeVideo returns has at most maxSegments elements.
C22_AtMostMaxSegments ==
    (toolPc = "returned" /\ toolResult[1].success) =>
        Len(toolResult[1].segments) <= toolInput.maxSegments

\* the claim for the maxSegments that are not negative
C22_AtMostMaxSegmentsFromZero ==
    (toolPc = "returned" /\ toolResult[1].success /\ toolInput.maxSegments >= 0) =>
        Len(toolResult[1].segments) <= toolInput.maxSegments

\* C24 (as claimed): every keyword extractKeywordsFromTranscript returns has a
\* non-empty word and a non-empty entity.
C24_WordAndEntityNotEmpty ==
    kwPc = "returned" =>
        \A i \in 1..Len(result.keywords) :
            result.keywords[i].word # <<>> /\ result.keywords[i].entity # <<>>

\* the half of C24 that holds: every returned keyword has a non-empty entity
C24_EntityNotEmpty ==
    kwPc = "returned" =>
        \A i \in 1..Len(result.keywords) : result.keywords[i].entity # <<>>

C25_FinalChunkIncluded ==
    (processed # <<>> /\ Len(transcript) > MAX_LENGTH) =>
        LET chunks == chunksOf(transcript)
        IN  chunks # <<>> => includes(processed[1], chunks[Len(chunks)])

\* the sampled text before the cut, which does include the final chunk
C25_FinalChunkSampled ==
    (processed # <<>> /\ Len(transcript) > MAX_LENGTH) =>
        LET chunks == chunksOf(transcript)
        IN  chunks # <<>> =>
                includes(JoinWords(sampleChunks(chunks)), chunks[Len(chunks)])

sampledTextOf(t) == JoinWords(sampleChunks(chunksOf(t)))

NoDelimiter(s) == \A i \in 1..Len(s) : s[i] \notin segmentDelimiters

\* C27 (as claimed): a transcript without a delimiter that passes the filter
\* is returned as exactly one segment, whatever its length and whether or not
\* it contains commas.
C27_NoDelimiterOneSegment ==
    (segPc = "returned" /\ NoDelimiter(transcript) /\ Passes(Normal(transcript))) =>
        Len(segments) = 1

\* C27 (amended): a transcript without a delimiter that passes the filter is
\* returned as exactly one segment, itself normalized and closed by a full
\* stop, when it has at most 100 characters after trimming or no comma; a
\* longer one with commas is returned as one segment for each of its comma
\* parts that passes the filter.
C27_NoDelimiterAmended ==
    (segPc = "returned" /\ NoDelimiter(transcript) /\ Passes(Normal(transcript))) =>
        IF Len(Stripped(transcript)) <= CommaSplitLength \/ ~HasComma(transcript)
        THEN segments = <<Append(Normal(transcript), ".")>>
        ELSE LET parts == CommaParts(Stripped(transcript))
                 normal == [i \in 1..Len(parts) |-> Normal(parts[i])]
             IN  Len(segments) = Len(SelectSeq(normal, Passes))

\* a transcript of more than 100 characters without a delimiter or a comma,
\* returned as one segment
C27_Witness ==
    /\ segPc = "returned"
    /\ NoDelimiter(transcript)
    /\ ~HasComma(transcript)
    /\ Len(Stripped(transcript)) > CommaSplitLength
    /\ Len(segments) = 1

\* the dictionaries part_006 loads for the call
loadedDictionaries ==
    IF dictionaryConfig = <<>> THEN <<>> ELSE loadDictionaries(dictionaryConfig[1])

\* the list the first merge of the revision returns: combineKeywords(nerKeywords,
\* generalKeywords)
intermediateKeywords ==
    IF revision = "keywords.ts"
    THEN combineKeywords(
             extractNamedEntities(processLongTranscript(transcript), nerReply),
             extractGeneralKeywords(processLongTranscript(transcript)))
    ELSE combineKeywords(
             extractNamedEntitiesBoosted(transcript, nerReply, loadedDictionaries),
             extractGeneralKeywordsBoosted(transcript, loadedDictionaries))

\* the list the second merge is given as its second argument: the knowledge
\* graph keywords in keywords.ts, the dictionary keywords in part_006
lastMergedKeywords ==
    IF revision = "keywords.ts"
    THEN extractKnowledgeGraphKeywords(processLongTranscript(transcript),
                                       googleApiKey, kgReplies)
    ELSE extractDictionaryKeywords(transcript, loadedDictionaries)

\* C28: the second merge never lowers the score held for a word: every word of
\* the list the first merge returned has one keyword in the final list, whose
\* score is at least the intermediate one, and which is the intermediate
\* keyword itself unless its score is strictly greater.
C28_LaterMergeNeverLowers ==
    kwPc = "returned" =>
        \A word \in WordsOf(intermediateKeywords) :
            LET m == EntriesFor(intermediateKeywords, word)
                f == EntriesFor(result.keywords, word)
            IN  /\ Len(m) = 1
                /\ Len(f) = 1
                /\ f[1].score >= m[1].score
                /\ f[1] # m[1] => f[1].score > m[1].score

\* a word of the intermediate list that the last list has too, once with a
\* greater score (the keyword is replaced) and once with a score that is not
\* greater (the keyword is kept)
C28_Witness ==
    /\ kwPc = "returned"
    /\ \E word \in WordsOf(intermediateKeywords) \cap WordsOf(lastMergedKeywords) :
          EntriesFor(result.keywords, word) # EntriesFor(intermediateKeywords, word)
    /\ \E word \in WordsOf(intermediateKeywords) \cap WordsOf(lastMergedKeywords) :
          /\ EntriesFor(result.keywords, word) = EntriesFor(intermediateKeywords, word)
          /\ EntriesFor(lastMergedKeywords, word)[1] # EntriesFor(intermediateKeywords, word)[1]

====
